---- MODULE Spec2Model ----
(***************************************************************************)
(* A model of the CRAITE generation layer.                                 *)
(*                                                                         *)
(*  - the TypeScript facade (packages/core: craite.ts, types.ts) with its  *)
(*    tool map, generate and generateWithTools;                            *)
(*  - the TypeScript provider adapters (llm-providers/openai.ts,           *)
(*    anthropic.ts, base.ts);                                              *)
(*  - the Go SDK's tool registry (sdks/go/mcp.go).                         *)
(*                                                                         *)
(* JavaScript strings that the code only concatenates are sequences of     *)
(* tokens; the provider's response text, which the code scans with a       *)
(* regular expression, is a sequence of single characters.                 *)
(***************************************************************************)
EXTENDS Integers, Sequences, FiniteSets, TLC

(***************************************************************************)
(* Bounds of the model.                                                    *)
(***************************************************************************)
\* the longest tool-name list one generateWithTools call is given
MaxTools == 2
\* the most entries the facade's tool map holds
MaxMapSize == 2
\* the most segments of a provider response text (SpecGen)
MaxSegs == 6

\* the most parts an extracted text is put together from
MaxParts == 5

\* the longest API key given to the Go client
MaxKeyLen == 3

\* statements in the file the Go CLI analyses
MaxStmts == 3

\* features one request to the template tool names
MaxFeatures == 2

(***************************************************************************)
(* JavaScript values.                                                      *)
(***************************************************************************)
\* JavaScript's undefined, for an optional string field that is left out
Undefined == "<undefined>"

\* a falsy optional string: undefined or the empty string
Falsy(v) == v \in {Undefined, ""}

\* a || b on optional strings
JsOr(a, b) == IF Falsy(a) THEN b ELSE a

\* an optional structured value: absent, or one value
None == <<>>

Some(v) == <<v>>

\* a template literal's rendering of an optional string
ToStr(v) == IF v = Undefined THEN "undefined" ELSE v

(***************************************************************************)
(* The facade's tool map: a JavaScript Map, which keeps its keys in        *)
(* insertion order.  An entry is [name, impl]; impl stands for the tool's    *)
(* execute function.                                                       *)
(***************************************************************************)
ToolNames == {"scan", "lint", "audit"}

\* the names of the Go registry's default tools, and the names callers register
GoBuiltins == {"openzeppelin_contracts", "security_audit", "gas_optimization"}

GoToolNames == GoBuiltins \cup {"custom_lint"}

\* what one run of a tool's execute does: the stub's fixed answer, or for a
\* registered tool a success result, a failure result, undefined, or a throw
Behaviours == {"stub", "ok", "fail", "void", "throws"}

MapIndex(m, name) ==
    IF \E k \in 1..Len(m) : m[k].name = name
    THEN CHOOSE k \in 1..Len(m) : m[k].name = name
    ELSE 0

MapHas(m, name) == MapIndex(m, name) # 0

\* Map.prototype.get: the entry, or undefined
MapGet(m, name) == IF MapHas(m, name) THEN Some(m[MapIndex(m, name)]) ELSE None

\* a Map.set that appends without looking for the key
MapSetAppend(m, tool) == Append(m, tool)

\* Map.prototype.set: replace the value of an existing key in place, else append
MapSet(m, tool) ==
    IF MapHas(m, tool.name)
    THEN [m EXCEPT ![MapIndex(m, tool.name)] = tool]
    ELSE Append(m, tool)

\* Array.from(map.keys())
MapKeys(m) == [k \in 1..Len(m) |-> m[k].name]


(***************************************************************************)
(* Tools (types.ts: MCPTool, ToolResult).                                  *)
(***************************************************************************)
\* what a run of the tool's execute may do
BehavioursOf(tool) == IF tool.impl = "stub" THEN {"stub"} ELSE Behaviours \ {"stub"}

\* the value a run of a tool's execute resolves to, or its rejection:
\*   [threw, error, ret]: ret is None for undefined, else Some(ToolResult)
ExecuteTool(tool, params, behav) ==
    CASE behav = "stub" ->
            [threw |-> FALSE, error |-> <<>>,
             ret |-> Some([tool |-> Undefined, success |-> TRUE, data |-> "{}",
                           error |-> Undefined])]
      [] behav = "ok" ->
            [threw |-> FALSE, error |-> <<>>,
             ret |-> Some([tool |-> tool.name, success |-> TRUE, data |-> "ctx",
                           error |-> Undefined])]
      [] behav = "fail" ->
            [threw |-> FALSE, error |-> <<>>,
             ret |-> Some([tool |-> tool.name, success |-> FALSE, data |-> "null",
                           error |-> "failed"])]
      [] behav = "void" -> [threw |-> FALSE, error |-> <<>>, ret |-> None]
      [] OTHER -> [threw |-> TRUE, error |-> <<"tool crashed: ", tool.name>>, ret |-> None]

\* the stub entry initializeMCPTools stores for one configured name
StubTool(toolName) == [name |-> toolName, impl |-> "stub"]

RECURSIVE initializeMCPTools(_, _)
\* toolNames.forEach(name => this.mcpTools.set(name, stub))
initializeMCPTools(m, toolNames) ==
    IF toolNames = <<>> THEN m
    ELSE initializeMCPTools(MapSet(m, StubTool(Head(toolNames))), Tail(toolNames))

(***************************************************************************)
(* Construction (craite.ts: constructor, initializeLLMProvider).           *)
(***************************************************************************)
\* switch (config.provider || 'openai'): the adapter kind, or the thrown Error
initializeLLMProvider(config) ==
    LET kind == JsOr(config.provider, "openai") IN
    CASE kind = "openai" -> [ok |-> TRUE, provider |-> "openai", error |-> <<>>]
      [] kind = "anthropic" -> [ok |-> TRUE, provider |-> "anthropic", error |-> <<>>]
      [] OTHER -> [ok |-> FALSE, provider |-> Undefined,
                   error |-> <<"Unsupported LLM provider: ", ToStr(config.provider)>>]

(***************************************************************************)
(* Prompt composition (craite.ts, llm-providers/base.ts).                  *)
(***************************************************************************)
ProductionInstruction ==
    "Generate production-ready code with minimal comments. Focus on efficiency and best practices."

EducationalInstruction ==
    "Generate code with detailed explanations, comments, and step-by-step guidance for learning."

\* the keys an object literal inherits from Object.prototype, among the modes
InheritedKeys == {"constructor"}

\* modeInstructions[mode] || '' followed by a blank line and the prompt; an
\* inherited key finds a function, which the template literal renders as its source
enhancePromptWithMode(prompt, mode) ==
    LET instruction == CASE mode = "production" -> <<ProductionInstruction>>
                         [] mode = "educational" -> <<EducationalInstruction>>
                         [] mode \in InheritedKeys ->
                               <<"function Object() { [native code] }">>
                         [] OTHER -> <<>>
    IN instruction \o <<"\n\n">> \o prompt

\* one tool result's context entry
ToolContext(r) == <<"Tool: ", ToStr(r.tool), "\nResult: ", r.data>>

RECURSIVE JoinContexts(_)
\* toolResults.map(...).join('\n\n')
JoinContexts(toolResults) ==
    IF toolResults = <<>> THEN <<>>
    ELSE IF Len(toolResults) = 1 THEN ToolContext(toolResults[1])
    ELSE ToolContext(Head(toolResults)) \o <<"\n\n">> \o JoinContexts(Tail(toolResults))

\* an enhancement that puts the heading also when no tool gave a result
enhancePromptWithToolResultsAlways(prompt, toolResults) ==
    prompt \o <<"\n\nAdditional context from MCP tools:\n">> \o JoinContexts(toolResults)

enhancePromptWithToolResults(prompt, toolResults) ==
    IF Len(toolResults) = 0 THEN prompt
    ELSE prompt \o <<"\n\nAdditional context from MCP tools:\n">> \o JoinContexts(toolResults)

buildSystemPrompt == "You are CRAITE, an elite Web3 code generator and AI development assistant."

\* the adapters' sentence for the educational mode
LearnSentence == "Provide detailed explanations and comments to help the user learn."

\* the adapters' sentence for the production mode
CleanSentence ==
    "Generate clean, production-ready code with minimal but essential comments."

\* base.ts formatPrompt: system preamble, mode sentence, user request
formatPrompt(userPrompt, mode) ==
    LET modeInstructions == IF mode = "educational" THEN LearnSentence ELSE CleanSentence
    IN <<buildSystemPrompt, "\n\n", modeInstructions, "\n\nUser request: ">> \o userPrompt


(***************************************************************************)
(* Response extraction (llm-providers/base.ts: extractCodeFromResponse).   *)
(* A text is a sequence of characters.                                     *)
(***************************************************************************)
\* the backtick character
BT == "^"

NL == "\n"

\* the characters of \w that texts are made of
WordChars == {"a"}

\* the characters trim() strips that texts are made of
SpaceChars == {NL, " "}

IsFenceAt(t, i) ==
    /\ i >= 1
    /\ i + 2 <= Len(t)
    /\ t[i] = BT /\ t[i + 1] = BT /\ t[i + 2] = BT

RECURSIVE SkipWord(_, _)
\* [\w]* from position j, greedy: the first position from j on that holds no word character
SkipWord(t, j) ==
    IF j <= Len(t) /\ t[j] \in WordChars THEN SkipWord(t, j + 1) ELSE j

RECURSIVE FindCloseLast(_, _)
\* a greedy interior: the greatest k >= from with a newline at k and a fence after it
FindCloseLast(t, k) ==
    IF k + 3 > Len(t) THEN 0
    ELSE LET later == FindCloseLast(t, k + 1) IN
         IF later # 0 THEN later
         ELSE IF t[k] = NL /\ t[k + 1] = BT /\ t[k + 2] = BT /\ t[k + 3] = BT THEN k
         ELSE 0

RECURSIVE FindClose(_, _)
\* ([\s\S]*?)\n FENCE, lazy: the least k >= from with a newline at k and a fence after it; 0 if none
FindClose(t, k) ==
    IF k + 3 > Len(t) THEN 0
    ELSE IF t[k] = NL /\ IsFenceAt(t, k + 1) THEN k
    ELSE FindClose(t, k + 1)

\* the pattern FENCE [\w]* \n ([\s\S]*?) \n FENCE tried at position i
MatchAt(t, i) ==
    IF ~IsFenceAt(t, i) THEN None
    ELSE LET j == SkipWord(t, i + 3) IN
         IF j > Len(t) \/ t[j] # NL THEN None
         ELSE LET k == FindClose(t, j + 1) IN
              IF k = 0 THEN None
              ELSE Some([whole |-> SubSeq(t, i, k + 3), group |-> SubSeq(t, j + 1, k - 1)])

RECURSIVE MatchFrom(_, _)
\* String.prototype.match without /g: the leftmost match, or null
MatchFrom(t, i) ==
    IF i > Len(t) THEN None
    ELSE IF MatchAt(t, i) # None THEN MatchAt(t, i)
    ELSE MatchFrom(t, i + 1)

RECURSIVE IndexOf(_, _, _)
\* the first position from i on where s occurs in t; 0 if none
IndexOf(t, s, i) ==
    IF i + Len(s) - 1 > Len(t) THEN 0
    ELSE IF SubSeq(t, i, i + Len(s) - 1) = s THEN i
    ELSE IndexOf(t, s, i + 1)

RECURSIVE ReplaceEvery(_, _)
\* every occurrence of the string s removed
ReplaceEvery(t, s) ==
    LET at == IndexOf(t, s, 1) IN
    IF at = 0 \/ s = <<>> THEN t
    ELSE SubSeq(t, 1, at - 1) \o ReplaceEvery(SubSeq(t, at + Len(s), Len(t)), s)

\* response.replace(s, ''): the first occurrence of the string s removed
ReplaceFirst(t, s) ==
    LET at == IndexOf(t, s, 1) IN
    IF at = 0 THEN t
    ELSE SubSeq(t, 1, at - 1) \o SubSeq(t, at + Len(s), Len(t))

RECURSIVE TrimStart(_)
TrimStart(t) == IF t # <<>> /\ Head(t) \in SpaceChars THEN TrimStart(Tail(t)) ELSE t

RECURSIVE TrimEnd(_)
TrimEnd(t) ==
    IF t # <<>> /\ t[Len(t)] \in SpaceChars THEN TrimEnd(SubSeq(t, 1, Len(t) - 1)) ELSE t

\* String.prototype.trim
Trim(t) == TrimEnd(TrimStart(t))

\* an extraction that trims a text it found no block in
extractCodeFromResponseTrimming(response) ==
    LET codeMatch == MatchFrom(response, 1) IN
    IF codeMatch # None
    THEN LET explanation == Trim(ReplaceFirst(response, codeMatch[1].whole)) IN
         [code |-> codeMatch[1].group,
          explanation |-> IF explanation = <<>> THEN None ELSE Some(explanation)]
    ELSE [code |-> Trim(response), explanation |-> None]

\* [code, explanation]: explanation is None for undefined
extractCodeFromResponse(response) ==
    LET codeMatch == MatchFrom(response, 1) IN
    IF codeMatch # None
    THEN LET explanation == Trim(ReplaceFirst(response, codeMatch[1].whole)) IN
         [code |-> codeMatch[1].group,
          explanation |-> IF explanation = <<>> THEN None ELSE Some(explanation)]
    ELSE [code |-> response, explanation |-> None]


(***************************************************************************)
(* Provider adapters (llm-providers/openai.ts, anthropic.ts).              *)
(***************************************************************************)
ProviderLabel(kind) == IF kind = "anthropic" THEN "Anthropic" ELSE "OpenAI"

\* options[field] of a request object: absent when the request leaves it out
OptField(options, field) == IF field \in DOMAIN options THEN options[field] ELSE None

\* a || b on an optional number: 0 is falsy.  A temperature is counted in tenths.
NumOr(a, b) == IF a = None THEN b ELSE IF a[1] = 0 THEN b ELSE a[1]

\* the request axios.post is given
ProviderRequest(kind, config, options) ==
    LET mode == JsOr(options.mode, "production")
        formattedPrompt == formatPrompt(options.prompt, mode)
    IN [provider |-> kind,
        credential |-> config.apiKey,
        auth |-> IF kind = "anthropic"
                 THEN <<"x-api-key: ", ToStr(config.apiKey)>>
                 ELSE <<"Authorization: Bearer ", ToStr(config.apiKey)>>,
        system |-> <<buildSystemPrompt>>,
        user |-> formattedPrompt,
        temperature |-> NumOr(OptField(options, "temperature"), 7),
        max_tokens |-> NumOr(OptField(options, "maxTokens"), 2000)]

\* what the HTTP exchange came to:
\*   "ok"        a response whose body holds the provider's text in the expected field
\*   "malformed" a response whose JSON body lacks that field
\*   "badelem"   a response whose choices[0] / content[0] is not an object
\*   "garbled"   a response whose body is not JSON
\*   "status"    a response with an error status; text is its body
\*   "transport" no response at all
ReplyKinds == {"ok", "malformed", "status", "transport"}

\* axios resolves for the statuses its default validateStatus accepts
AxiosResolves(reply) ==
    reply.kind # "transport" /\ reply.status >= 200 /\ reply.status < 300

\* %d of a status code
StatusText(n) ==
    CASE n = 200 -> "200"
      [] n = 201 -> "201"
      [] n = 500 -> "500"
      [] OTHER -> "0"

\* error.message of what the try block threw: axios's own errors, or the
\* TypeError of reading choices[0].message.content / content[0].text
CaughtMessage(reply) ==
    CASE reply.kind = "transport" -> <<"Network Error">>
      [] ~AxiosResolves(reply) ->
            <<"Request failed with status code ", StatusText(reply.status)>>
      [] OTHER -> <<"Cannot read properties of undefined">>

\* the rest of the provider's generate after the await: the extracted pair,
\* or the Error thrown from the catch block
ProviderResult(kind, reply) ==
    IF AxiosResolves(reply) /\ reply.kind = "ok"
    THEN [ok |-> TRUE, value |-> extractCodeFromResponse(reply.text), error |-> <<>>]
    ELSE [ok |-> FALSE, value |-> [code |-> <<>>, explanation |-> None],
          error |-> <<ProviderLabel(kind), " API error: ">> \o CaughtMessage(reply)]

(***************************************************************************)
(* The facade's state.                                                     *)
(***************************************************************************)
VARIABLES
    facade,       \* "none" before new CRAITE(config), then "ready" or "failed"
    config,       \* this.config
    llmProvider,  \* the adapter kind this.llmProvider was built as
    ctorError,    \* the Error the constructor threw, else <<>>
    mcpTools,     \* this.mcpTools
    lastReg,      \* per name, the execute most recently stored under it in mcpTools
    goTools,      \* the Go MCPToolRegistry's tools map
    goLastReg,    \* per name, the tool most recently registered in the Go registry
    probe,        \* what the last direct lookup, listing or execution gave its caller
    goMain,       \* a Go program using Client: its position and its locals
    goFile,       \* the Go CLI: the contents of the file it is given
    goOut,        \* the Go CLI: what the last run of a built-in tool or command gave
    pc,           \* where the invocation in flight stands: "idle", "tools",
                  \* "awaitTool", "http", "gohttp"
    req,          \* the options of the invocation in flight or last finished
    idx,          \* generateWithTools: position in options.tools
    toolsUsed,    \* generateWithTools: its local toolsUsed
    toolResults,  \* generateWithTools: its local toolResults
    execLog,      \* one entry per requested name the loop has passed
    running,      \* the tool executions that were started and have not settled
    mode,         \* generate: its local mode
    httpCalls,    \* requests this invocation has sent
    sent,         \* the requests this invocation has sent, in order
    reply,        \* the HTTP outcome this invocation got: None, or one
    result        \* how the invocation ended: pending, returned or rejected

vars == <<facade, config, llmProvider, ctorError, mcpTools, lastReg, goTools, goLastReg,
          probe, goMain, goFile, goOut, pc, req, idx, toolsUsed, toolResults, execLog, running, mode,
          httpCalls, sent, reply, result>>

callVars == <<pc, req, idx, toolsUsed, toolResults, execLog, running, mode, httpCalls,
              sent, reply, result>>

facadeVars == <<facade, config, llmProvider, ctorError, mcpTools, lastReg, goTools,
                goLastReg, probe, goMain>>

goVars == <<goTools, goLastReg, probe>>

cliVars == <<goFile, goOut>>

\* the inputs the model draws from
Providers == {Undefined, "openai", "anthropic", "local", "gemini"}

ApiKeys == {Undefined, "", "sk-live"}

Styles == {Undefined, "concise", "educational"}

Modes == {Undefined, "production", "educational"}

Languages == {Undefined, "solidity"}

Prompts == {<<"make a token">>}

NoConfig == [apiKey |-> Undefined, provider |-> Undefined, style |-> Undefined,
             mcpTools |-> <<>>]

NoReq == [op |-> "none", prompt |-> <<>>, language |-> Undefined, mode |-> Undefined,
          tools |-> <<>>]

Pending == [status |-> "pending", code |-> <<>>, language |-> Undefined,
            explanation |-> None, toolsUsed |-> <<>>, error |-> <<>>]

Returned(r) == [status |-> "returned", code |-> r.code, language |-> r.language,
                explanation |-> r.explanation, toolsUsed |-> r.toolsUsed, error |-> <<>>]

Rejected(e) == [Pending EXCEPT !.status = "rejected", !.error = e]

\* sequences over S of length at most n
SeqsUpTo(S, n) == UNION {[1..k -> S] : k \in 0..n}


NoResult == [Pending EXCEPT !.status = "none"]

\* the goroutine panicked: nothing is returned
Panicked == [Pending EXCEPT !.status = "panicked"]

\* the HTTP status line of a reply of each kind (0: there was no response)
StatusOf(kind) ==
    CASE kind \in {"ok", "malformed"} -> 200
      [] kind = "status" -> 500
      [] OTHER -> 0

\* a finished HTTP exchange
Replies(texts) ==
    {[kind |-> "ok", status |-> StatusOf("ok"), text |-> t] : t \in texts}
        \cup {[kind |-> k, status |-> StatusOf(k), text |-> <<>>] : k \in ReplyKinds \ {"ok"}}

(***************************************************************************)
(* Facade operations (craite.ts).                                          *)
(***************************************************************************)
\* new CRAITE(config)
Construct(cfg) ==
    /\ facade = "none"
    /\ LET p == initializeLLMProvider(cfg) IN
       /\ facade' = IF p.ok THEN "ready" ELSE "failed"
       /\ llmProvider' = p.provider
       /\ ctorError' = p.error
       /\ mcpTools' = IF p.ok THEN initializeMCPTools(<<>>, cfg.mcpTools) ELSE <<>>
       /\ lastReg' = [n \in ToolNames |->
                        IF p.ok /\ \E k \in 1..Len(cfg.mcpTools) : cfg.mcpTools[k] = n
                        THEN "stub" ELSE "none"]
    /\ config' = cfg
    /\ UNCHANGED goVars
    /\ UNCHANGED goMain
    /\ UNCHANGED callVars
    /\ UNCHANGED cliVars

\* registerTool(tool)
registerTool(tool) ==
    /\ facade = "ready"
    /\ MapHas(mcpTools, tool.name) \/ Len(mcpTools) < MaxMapSize
    /\ mcpTools' = MapSet(mcpTools, tool)
    /\ lastReg' = [lastReg EXCEPT ![tool.name] = tool.impl]
    /\ UNCHANGED <<facade, config, llmProvider, ctorError>>
    /\ UNCHANGED goVars
    /\ UNCHANGED goMain
    /\ UNCHANGED callVars
    /\ UNCHANGED cliVars

\* useTool(toolName, params): throws for an unknown name, else the tool's execute
useTool(m, toolName, params, behav) ==
    LET tool == MapGet(m, toolName) IN
    IF tool = None
    THEN [threw |-> TRUE, error |-> <<"MCP tool ", "not found", ": ", toolName>>,
          ret |-> None]
    ELSE ExecuteTool(tool[1], params, behav)

\* a loop that calls useTool without looking the name up first
ToolGuardDropped(m, toolName) == TRUE

\* generateWithTools: if (tool)
ToolGuard(m, toolName) == MapGet(m, toolName) # None

\* generateWithTools: if (result), JavaScript truthiness of what execute resolved to
ResultGuard(ret) == ret # None

\* what one execution came to, for the log
Outcome(out) ==
    CASE out.threw -> "threw"
      [] out.ret = None -> "void"
      [] out.ret[1].success -> "success"
      [] OTHER -> "failure"

\* generate from its call to its await: resolve the mode, compose the prompt and
\* hand the request to axios.post; sentSoFar is what this invocation sent before
GenerateSend(options, sentSoFar, callsSoFar) ==
    LET m == JsOr(options.mode, JsOr(config.style, "production"))
        enhancedPrompt == enhancePromptWithMode(options.prompt, m)
        request == ProviderRequest(llmProvider, config,
                                   [options EXCEPT !.prompt = enhancedPrompt])
    IN /\ mode' = m
       /\ sent' = Append(sentSoFar, request)
       /\ httpCalls' = callsSoFar + 1
       /\ pc' = "http"

\* generate(options), up to the provider's await
generate(options) ==
    /\ facade = "ready"
    /\ pc = "idle"
    /\ result.status = "none"
    /\ req' = options
    /\ idx' = 0
    /\ toolsUsed' = <<>>
    /\ toolResults' = <<>>
    /\ execLog' = <<>>
    /\ reply' = None
    /\ result' = Pending
    /\ GenerateSend(options, <<>>, 0)
    /\ UNCHANGED running
    /\ UNCHANGED facadeVars
    /\ UNCHANGED cliVars

\* generateWithTools(options): its locals are set up, the loop is about to start
generateWithTools(options) ==
    /\ facade = "ready"
    /\ pc = "idle"
    /\ result.status = "none"
    /\ req' = options
    /\ idx' = 1
    /\ toolsUsed' = <<>>
    /\ toolResults' = <<>>
    /\ execLog' = <<>>
    /\ reply' = None
    /\ result' = Pending
    /\ mode' = Undefined
    /\ sent' = <<>>
    /\ httpCalls' = 0
    /\ pc' = "tools"
    /\ UNCHANGED running
    /\ UNCHANGED facadeVars
    /\ UNCHANGED cliVars

\* the runs the execute of the tool stored under toolName may take
RunsOf(m, toolName) ==
    IF MapHas(m, toolName) THEN BehavioursOf(MapGet(m, toolName)[1]) ELSE {"none"}

\* the log entry of a requested name the loop passes without executing it
SkippedEntry(toolName, params) ==
    [name |-> toolName, registered |-> MapHas(mcpTools, toolName), params |-> params,
     outcome |-> "skipped", error |-> <<>>]

\* a loop that starts an execution and goes on to the next name without awaiting it
ToolStepConcurrent ==
    /\ pc = "tools"
    /\ idx <= Len(req.tools)
    /\ LET toolName == req.tools[idx]
           params == [query |-> req.prompt]
       IN IF ToolGuard(mcpTools, toolName)
          THEN /\ running' = Append(running, [name |-> toolName, params |-> params,
                                              tool |-> MapGet(mcpTools, toolName)])
               /\ UNCHANGED execLog
          ELSE /\ execLog' = Append(execLog, SkippedEntry(toolName, params))
               /\ UNCHANGED running
    /\ idx' = idx + 1
    /\ UNCHANGED <<pc, result, toolsUsed, toolResults, req, mode, httpCalls, sent, reply>>
    /\ UNCHANGED facadeVars
    /\ UNCHANGED cliVars

\* one iteration of for (const toolName of options.tools), up to its await:
\* the lookup, and for a registered name the call of useTool, which starts the
\* tool's execute; an unregistered name is passed over
ToolStep ==
    /\ pc = "tools"
    /\ idx <= Len(req.tools)
    /\ LET toolName == req.tools[idx]
           params == [query |-> req.prompt]
       IN IF ToolGuard(mcpTools, toolName)
          THEN /\ running' = Append(running, [name |-> toolName, params |-> params,
                                              tool |-> MapGet(mcpTools, toolName)])
               /\ pc' = "awaitTool"
               /\ UNCHANGED <<idx, execLog>>
          ELSE /\ execLog' = Append(execLog, SkippedEntry(toolName, params))
               /\ idx' = idx + 1
               /\ UNCHANGED <<pc, running>>
    /\ UNCHANGED <<result, toolsUsed, toolResults, req, mode, httpCalls, sent, reply>>
    /\ UNCHANGED facadeVars
    /\ UNCHANGED cliVars

\* the awaited useTool settles: the loop body goes on after its await, or the
\* rejection leaves generateWithTools
ToolReturn ==
    /\ pc = "awaitTool"
    /\ running # <<>>
    /\ LET run == running[1]
           started == IF run.tool = None THEN <<>> ELSE <<run.tool[1]>>
       IN \E behav \in RunsOf(started, run.name) :
          LET out == useTool(started, run.name, run.params, behav) IN
          /\ execLog' = Append(execLog, [name |-> run.name,
                                         registered |-> run.tool # None,
                                         params |-> run.params,
                                         outcome |-> Outcome(out),
                                         error |-> out.error])
          /\ running' = Tail(running)
          /\ IF out.threw
             THEN /\ result' = Rejected(out.error)
                  /\ pc' = "idle"
                  /\ UNCHANGED <<idx, toolsUsed, toolResults>>
             ELSE /\ IF ResultGuard(out.ret)
                     THEN /\ toolResults' = Append(toolResults, out.ret[1])
                          /\ toolsUsed' = Append(toolsUsed, run.name)
                     ELSE UNCHANGED <<toolsUsed, toolResults>>
                  /\ idx' = idx + 1
                  /\ pc' = "tools"
                  /\ UNCHANGED result
    /\ UNCHANGED <<req, mode, httpCalls, sent, reply>>
    /\ UNCHANGED facadeVars
    /\ UNCHANGED cliVars

\* after the loop: enhance the prompt with the tool results and call generate
GenerateWithToolsSend ==
    /\ pc = "tools"
    /\ idx > Len(req.tools)
    /\ LET enhancedPrompt == enhancePromptWithToolResults(req.prompt, toolResults) IN
       GenerateSend([req EXCEPT !.prompt = enhancedPrompt], sent, httpCalls)
    /\ UNCHANGED <<req, idx, toolsUsed, toolResults, execLog, reply, result>>
    /\ UNCHANGED running
    /\ UNCHANGED facadeVars
    /\ UNCHANGED cliVars

\* an invocation that sends the request again when the exchange fails
ProviderReplyRetrying(r) ==
    /\ pc = "http"
    /\ reply' = Some(r)
    /\ IF r.kind = "ok"
       THEN /\ result' = Returned([code |-> <<>>, language |-> "javascript",
                                   explanation |-> None, toolsUsed |-> toolsUsed])
            /\ pc' = "idle"
            /\ UNCHANGED <<sent, httpCalls>>
       ELSE IF httpCalls < 2
       THEN /\ sent' = Append(sent, sent[Len(sent)])
            /\ httpCalls' = httpCalls + 1
            /\ UNCHANGED <<pc, result>>
       ELSE /\ result' = Rejected(<<"gave up">>)
            /\ pc' = "idle"
            /\ UNCHANGED <<sent, httpCalls>>
    /\ UNCHANGED <<req, idx, toolsUsed, toolResults, execLog, mode>>
    /\ UNCHANGED running
    /\ UNCHANGED facadeVars
    /\ UNCHANGED cliVars

\* a generate that passes the explanation on whatever the mode
GenerateResultKeeping(options, m, extracted) ==
    [code |-> extracted.code,
     language |-> JsOr(options.language, "javascript"),
     explanation |-> extracted.explanation,
     toolsUsed |-> <<>>]

\* the object generate returns, from the adapter's extracted pair
GenerateResult(options, m, extracted) ==
    [code |-> extracted.code,
     language |-> JsOr(options.language, "javascript"),
     explanation |-> IF m = "educational" THEN extracted.explanation ELSE None,
     toolsUsed |-> <<>>]

\* the HTTP exchange finishes: the provider's generate, then the facade's, return or throw
ProviderReply(r) ==
    /\ pc = "http"
    /\ reply' = Some(r)
    /\ LET got == ProviderResult(llmProvider, r) IN
       IF got.ok
       THEN LET generated == GenerateResult(req, mode, got.value)
            IN result' = Returned(IF req.op = "generateWithTools"
                                  THEN [generated EXCEPT !.toolsUsed = toolsUsed]
                                  ELSE generated)
       ELSE result' = Rejected(got.error)
    /\ pc' = "idle"
    /\ UNCHANGED <<req, idx, toolsUsed, toolResults, execLog, mode, httpCalls, sent>>
    /\ UNCHANGED running
    /\ UNCHANGED facadeVars
    /\ UNCHANGED cliVars

\* the exchange of the request in flight finishes with one of the replies
ProviderReplies(texts) ==
    /\ pc = "http"
    /\ \E r \in Replies(texts) : ProviderReply(r)

(***************************************************************************)
(* The Go SDK's HTTP client (sdks/go: ApiClient).                          *)
(***************************************************************************)
GoProviders == {"openai", "anthropic", "local"}

\* buildSystemPrompt(mode): the preamble, and a sentence for the two known modes
GoBuildSystemPrompt(m) ==
    CASE m = "educational" -> <<buildSystemPrompt, "\n", LearnSentence>>
      [] m = "production" -> <<buildSystemPrompt, "\n", CleanSentence>>
      [] OTHER -> <<buildSystemPrompt>>

\* buildPayload and setHeaders: the request httpClient.Do is given; a numeric
\* field of the options struct holds the zero value when it is left out
GoRequest(cfg, opts) ==
    LET temperature == OptField(opts, "temperature")
        maxTokens == OptField(opts, "maxTokens")
    IN
    [provider |-> cfg.provider,
     credential |-> cfg.apiKey,
     auth |-> CASE cfg.provider = "openai" -> <<"Authorization: Bearer ", cfg.apiKey>>
                [] cfg.provider = "anthropic" -> <<"x-api-key: ", cfg.apiKey>>
                [] OTHER -> <<>>,
     system |-> GoBuildSystemPrompt(opts.mode),
     user |-> opts.prompt,
     temperature |-> IF temperature = None THEN 0 ELSE temperature[1],
     max_tokens |-> IF maxTokens = None THEN 0 ELSE maxTokens[1]]

\* extractCodeFromContent(content): the fenced-block split of spec section 4.3
extractCodeFromContent(content) == extractCodeFromResponse(content)

\* ApiClient.Generate up to httpClient.Do
ApiClientGenerate(cfg, opts) ==
    /\ pc = "idle"
    /\ result.status = "none"
    /\ req' = opts
    /\ idx' = 0
    /\ toolsUsed' = <<>>
    /\ toolResults' = <<>>
    /\ execLog' = <<>>
    /\ reply' = None
    /\ result' = Pending
    /\ mode' = opts.mode
    /\ sent' = <<GoRequest(cfg, opts)>>
    /\ httpCalls' = 1
    /\ pc' = "gohttp"
    /\ UNCHANGED running
    /\ UNCHANGED facadeVars
    /\ UNCHANGED cliVars

\* the content parseResponse reads out of the decoded body for the configured
\* provider; an unchecked type assertion on choices[0] panics
GoParseContent(provider, r) ==
    CASE r.kind = "ok" -> [panic |-> FALSE, content |-> r.text]
      [] r.kind = "badelem" /\ provider = "openai" -> [panic |-> TRUE, content |-> <<>>]
      [] OTHER -> [panic |-> FALSE, content |-> <<>>]

\* parseResponse(response, language)
GoParseResponse(provider, r, language) ==
    LET parsed == GoParseContent(provider, r)
        extracted == extractCodeFromContent(parsed.content)
    IN IF parsed.panic THEN Panicked
       ELSE Returned([code |-> extracted.code,
                      language |-> language,
                      explanation |-> extracted.explanation,
                      toolsUsed |-> <<>>])

\* ApiClient.Generate after httpClient.Do: an error return, or parseResponse's result
ApiClientReply(r) ==
    /\ pc = "gohttp"
    /\ reply' = Some(r)
    /\ result' =
          CASE r.kind = "transport" -> Rejected(<<"sending request: ", r.kind>>)
            [] r.status # 200 -> Rejected(<<"API error ", StatusText(r.status), ": ">> \o r.text)
            [] r.kind = "garbled" -> Rejected(<<"decoding response: ", "invalid character">>)
            [] OTHER -> GoParseResponse(sent[1].provider, r, req.language)
    /\ pc' = "idle"
    /\ UNCHANGED <<req, idx, toolsUsed, toolResults, execLog, mode, httpCalls, sent>>
    /\ UNCHANGED running
    /\ UNCHANGED facadeVars
    /\ UNCHANGED cliVars

(***************************************************************************)
(* Direct use of the facade's tool map (craite.ts: useTool,                *)
(* getAvailableTools).                                                     *)
(***************************************************************************)
NoProbe == [op |-> "none", name |-> "", known |-> FALSE, threw |-> FALSE,
            success |-> FALSE, impl |-> "none", error |-> <<>>, names |-> <<>>,
            expected |-> {}, copy |-> <<>>]

\* await craite.useTool(toolName, {}) by a caller
UseTool(toolName) ==
    /\ facade = "ready"
    /\ \E behav \in RunsOf(mcpTools, toolName) :
          LET out == useTool(mcpTools, toolName, [query |-> <<>>], behav) IN
          probe' = [NoProbe EXCEPT
                       !.op = "useTool",
                       !.name = toolName,
                       !.known = (lastReg[toolName] # "none"),
                       !.threw = out.threw,
                       !.success = (out.ret # None /\ out.ret[1].success),
                       !.impl = IF MapHas(mcpTools, toolName)
                                THEN MapGet(mcpTools, toolName)[1].impl ELSE "none",
                       !.error = IF out.threw THEN out.error
                                 ELSE IF out.ret # None /\ out.ret[1].error # Undefined
                                 THEN <<out.ret[1].error>> ELSE <<>>]
    /\ UNCHANGED <<facade, config, llmProvider, ctorError, mcpTools, lastReg, goTools,
                   goLastReg>>
    /\ UNCHANGED goMain
    /\ UNCHANGED callVars
    /\ UNCHANGED cliVars

\* craite.getAvailableTools()
getAvailableTools ==
    /\ facade = "ready"
    /\ probe' = [NoProbe EXCEPT
                    !.op = "getAvailableTools",
                    !.names = MapKeys(mcpTools),
                    !.expected = {n \in ToolNames : lastReg[n] # "none"}]
    /\ UNCHANGED <<facade, config, llmProvider, ctorError, mcpTools, lastReg, goTools,
                   goLastReg>>
    /\ UNCHANGED goMain
    /\ UNCHANGED callVars
    /\ UNCHANGED cliVars

(***************************************************************************)
(* The configuration object and its callers (craite.ts: constructor,       *)
(* getConfig).  `this.config = config` keeps the caller's own object, and  *)
(* `{ ...this.config }` copies the top-level fields only: the nested       *)
(* output object, which holds the style, is shared with the copy.          *)
(***************************************************************************)
\* craite.getConfig(): a new object with the top-level fields of this.config
getConfig ==
    /\ facade = "ready"
    /\ probe' = [NoProbe EXCEPT
                    !.op = "getConfig",
                    !.copy = [apiKey |-> config.apiKey, provider |-> config.provider,
                              mcpTools |-> config.mcpTools]]
    /\ UNCHANGED <<facade, config, llmProvider, ctorError, mcpTools, lastReg, goTools,
                   goLastReg>>
    /\ UNCHANGED goMain
    /\ UNCHANGED callVars
    /\ UNCHANGED cliVars

\* copy.provider = provider, by the caller that holds the copy
SetCopyProvider(provider) ==
    /\ probe.op = "getConfig"
    /\ probe' = [probe EXCEPT !.copy.provider = provider]
    /\ UNCHANGED <<facade, config, llmProvider, ctorError, mcpTools, lastReg, goTools,
                   goLastReg>>
    /\ UNCHANGED goMain
    /\ UNCHANGED callVars
    /\ UNCHANGED cliVars

\* copy.output.style = style, by the caller that holds the copy: the output
\* object of a configuration that names a style is the facade's own
SetCopyOutputStyle(style) ==
    /\ probe.op = "getConfig"
    /\ config.style # Undefined
    /\ config' = [config EXCEPT !.style = style]
    /\ UNCHANGED <<facade, llmProvider, ctorError, mcpTools, lastReg, goTools,
                   goLastReg, probe>>
    /\ UNCHANGED goMain
    /\ UNCHANGED callVars
    /\ UNCHANGED cliVars

\* cfg.output = { style }, by the caller that passed cfg to the constructor:
\* cfg is the object this.config refers to
SetConstructorArgStyle(style) ==
    /\ facade = "ready"
    /\ config' = [config EXCEPT !.style = style]
    /\ UNCHANGED <<facade, llmProvider, ctorError, mcpTools, lastReg, goTools,
                   goLastReg, probe>>
    /\ UNCHANGED goMain
    /\ UNCHANGED callVars
    /\ UNCHANGED cliVars

(***************************************************************************)
(* The Go SDK's built-in tools (sdks/go/mcp.go).  A value of type          *)
(* interface{} carries its dynamic type; a type assertion with the ", _"   *)
(* or ", ok" form gives the zero value when the type is another one.  A    *)
(* text such as the code to scan is a sequence of pieces.                  *)
(***************************************************************************)
\* an interface{} value: its dynamic type and what it holds
GoValue(t, v) == [t |-> t, v |-> v]

\* params[key]: nil when the map has no such key
Param(params, key) == IF key \in DOMAIN params THEN params[key] ELSE GoValue("nil", <<>>)

\* v, _ := x.(T): the zero value of T when x holds another type.  The zero
\* value of a name is "", of a text and of a slice the empty sequence.
TypeAssert(x, t, zero) == IF x.t = t THEN x.v ELSE zero

\* strings.Contains(code, pat)
Contains(code, pat) ==
    \E i \in 1..(Len(code) - Len(pat) + 1) : SubSeq(code, i, i + Len(pat) - 1) = pat

\* contains(slice, item)
contains(slice, item) == \E i \in 1..Len(slice) : slice[i] = item

\* strings.ToLower on the contract types
ToLower(s) ==
    CASE s = "ERC20" -> "erc20"
      [] s = "ERC721" -> "erc721"
      [] s = "ERC1155" -> "erc1155"
      [] OTHER -> s

\* NewOpenZeppelinTool(): the contracts map
OpenZeppelinContracts ==
    [k \in {"ERC20", "ERC721", "ERC1155"} |->
        CASE k = "ERC20" ->
                [Base |-> "@openzeppelin/contracts/token/ERC20/ERC20.sol",
                 Features |-> <<"Mintable", "Burnable", "Pausable", "Snapshot", "Permit">>,
                 Template |-> "pragma solidity ^0.8.0; ... contract {name} is ERC20{features} ..."]
          [] k = "ERC721" ->
                [Base |-> "@openzeppelin/contracts/token/ERC721/ERC721.sol",
                 Features |-> <<"Enumerable", "URIStorage", "Burnable", "Pausable">>,
                 Template |-> "// ERC721 template"]
          [] OTHER ->
                [Base |-> "@openzeppelin/contracts/token/ERC1155/ERC1155.sol",
                 Features |-> <<"Supply", "Burnable", "Pausable", "URIStorage">>,
                 Template |-> "// ERC1155 template"]]

RECURSIVE OpenZeppelinLoopAll(_, _, _, _)
\* a loop that takes every requested feature
OpenZeppelinLoopAll(template, contractType, features, acc) ==
    IF features = <<>> THEN acc
    ELSE OpenZeppelinLoopAll(template, contractType, Tail(features),
            [imports |-> Append(acc.imports,
                <<"import \"@openzeppelin/contracts/token/", contractType,
                  "/extensions/", contractType, Head(features), ".sol\";">>),
             validFeatures |-> Append(acc.validFeatures, Head(features))])

RECURSIVE OpenZeppelinLoop(_, _, _, _)
\* for _, feature := range features { if contains(...) { append, append } }
OpenZeppelinLoop(template, contractType, features, acc) ==
    IF features = <<>> THEN acc
    ELSE OpenZeppelinLoop(template, contractType, Tail(features),
            IF contains(template.Features, Head(features))
            THEN [imports |-> Append(acc.imports,
                     <<"import \"@openzeppelin/contracts/token/", contractType,
                       "/extensions/", contractType, Head(features), ".sol\";">>),
                  validFeatures |-> Append(acc.validFeatures, Head(features))]
            ELSE acc)

\* OpenZeppelinTool.Execute(params)
OpenZeppelinExecute(params) ==
    LET given == TypeAssert(Param(params, "contract_type"), "string", "")
        contractType == IF given = "" THEN "ERC20" ELSE given
        features == TypeAssert(Param(params, "features"), "[]string", <<>>)
    IN IF contractType \notin DOMAIN OpenZeppelinContracts
       THEN [success |-> FALSE, data |-> None,
             error |-> <<"Unknown contract type: ", contractType>>]
       ELSE LET template == OpenZeppelinContracts[contractType]
                built == OpenZeppelinLoop(template, contractType, features,
                            [imports |-> << <<"import \"", template.Base, "\";">> >>,
                             validFeatures |-> <<>>])
            IN [success |-> TRUE, error |-> <<>>,
                data |-> Some([contract_type |-> contractType,
                               imports |-> built.imports,
                               features |-> built.validFeatures,
                               template |-> template.Template,
                               documentation |->
                                   <<"https://docs.openzeppelin.com/contracts/4.x/api/token/",
                                     ToLower(contractType)>>])]

\* the checks of SecurityAuditTool.Execute, in the order the code makes them
SecurityChecks ==
    << [patterns |-> {<<"call.value">>, <<".call{value:">>}, type |-> "reentrancy",
        severity |-> "high", message |-> "Potential reentrancy vulnerability detected"],
       [patterns |-> {<<"tx.origin">>}, type |-> "access_control",
        severity |-> "medium", message |-> "tx.origin used for authentication"],
       [patterns |-> {<<"block.timestamp">>}, type |-> "timestamp_dependence",
        severity |-> "low",
        message |-> "Block timestamp used, can be manipulated by miners"],
       [patterns |-> {<<"delegatecall">>}, type |-> "delegatecall",
        severity |-> "high",
        message |-> "Delegatecall usage detected, ensure target is trusted"] >>

RECURSIVE SecurityIssuesPerPattern(_, _)
\* checks that add an issue for every pattern of theirs that occurs
SecurityIssuesPerPattern(code, checks) ==
    IF checks = <<>> THEN <<>>
    ELSE LET hits == Cardinality({pat \in Head(checks).patterns : Contains(code, pat)})
         IN [i \in 1..hits |-> [type |-> Head(checks).type,
                                 severity |-> Head(checks).severity,
                                 message |-> Head(checks).message]]
            \o SecurityIssuesPerPattern(code, Tail(checks))

RECURSIVE SecurityIssues(_, _)
\* the if statements of SecurityAuditTool.Execute from the given check on
SecurityIssues(code, checks) ==
    IF checks = <<>> THEN <<>>
    ELSE (IF \E pat \in Head(checks).patterns : Contains(code, pat)
          THEN << [type |-> Head(checks).type, severity |-> Head(checks).severity,
                   message |-> Head(checks).message] >>
          ELSE <<>>)
         \o SecurityIssues(code, Tail(checks))

RECURSIVE getSecurityRecommendations(_)
\* for each issue, in order, the recommendation of its type
getSecurityRecommendations(issues) ==
    IF issues = <<>> THEN <<>>
    ELSE LET issueType == Head(issues).type IN
         (CASE issueType = "reentrancy" ->
                  <<"Use checks-effects-interactions pattern or ReentrancyGuard">>
            [] issueType = "access_control" ->
                  <<"Use msg.sender for authentication instead of tx.origin">>
            [] issueType = "timestamp_dependence" ->
                  <<"Avoid using block.timestamp for critical logic">>
            [] issueType = "delegatecall" ->
                  <<"Ensure delegatecall targets are trusted and immutable">>
            [] OTHER -> <<>>)
         \o getSecurityRecommendations(Tail(issues))

\* a score that takes the penalty twice for every finding
ScoreTwice(findings, penalty) ==
    IF 100 - Len(findings) * penalty * 2 < 0 THEN 0
    ELSE 100 - Len(findings) * penalty * 2

\* a score that takes the penalty once, however many findings there are
ScoreOnce(findings, penalty) == IF findings = <<>> THEN 100 ELSE 100 - penalty

\* score := 100 - len(findings)*penalty; if score < 0 { score = 0 }
Score(findings, penalty) ==
    IF 100 - Len(findings) * penalty < 0 THEN 0 ELSE 100 - Len(findings) * penalty

\* SecurityAuditTool.Execute(params)
SecurityAuditExecute(params) ==
    LET code == TypeAssert(Param(params, "code"), "string", <<>>)
        given == TypeAssert(Param(params, "language"), "string", "")
        language == IF given = "" THEN "solidity" ELSE given
        issues == IF language = "solidity" THEN SecurityIssues(code, SecurityChecks)
                  ELSE <<>>
    IN [success |-> TRUE, error |-> <<>>,
        data |-> Some([issues |-> GoValue("[]map[string]interface{}", issues),
                       score |-> Score(issues, 20),
                       recommendations |-> getSecurityRecommendations(issues)])]

\* the suggestions of GasOptimizationTool.Execute, in the order the code makes them
GasSuggestions(code) ==
    (IF Contains(code, <<"string ">>) /\ ~Contains(code, <<"string ", "memory">>)
     THEN << [type |-> "storage",
              suggestion |-> "Consider using bytes32 for fixed-length strings",
              impact |-> "high", gas_saved |-> "~2000 per storage slot"] >>
     ELSE <<>>)
    \o (IF Contains(code, <<"for (">>) /\ Contains(code, <<".length">>)
        THEN << [type |-> "loops",
                 suggestion |-> "Cache array length outside the loop",
                 impact |-> "medium", gas_saved |-> "~100 per iteration"] >>
        ELSE <<>>)
    \o (IF Contains(code, <<"i++">>)
        THEN << [type |-> "loops",
                 suggestion |-> "Use ++i instead of i++ in loops",
                 impact |-> "low", gas_saved |-> "~5 per iteration"] >>
        ELSE <<>>)
    \o (IF Contains(code, <<"public">>) /\ ~Contains(code, <<"external">>)
        THEN << [type |-> "functions",
                 suggestion |->
                     "Use external instead of public for functions not called internally",
                 impact |-> "medium", gas_saved |-> "~200 per call"] >>
        ELSE <<>>)
    \o (IF Contains(code, <<"storage">>) /\ Contains(code, <<"=">>)
        THEN << [type |-> "storage",
                 suggestion |-> "Minimize storage writes, batch updates when possible",
                 impact |-> "high", gas_saved |-> "~5000-20000 per storage slot"] >>
        ELSE <<>>)

\* GasOptimizationTool.Execute(params)
GasOptimizationExecute(params) ==
    LET code == TypeAssert(Param(params, "code"), "string", <<>>)
        suggestions == GasSuggestions(code)
        estimatedSavings == Len(suggestions) * 1000
    IN [success |-> TRUE, error |-> <<>>,
        data |-> Some([suggestions |-> GoValue("[]map[string]interface{}", suggestions),
                       estimated_total_savings |-> <<estimatedSavings, " gas">>,
                       optimization_score |-> Score(suggestions, 10)])]

\* tool.Execute(params) of a registered tool; ok is whether a tool that is not
\* one of the built-in ones reports success
GoToolExecute(tool, params, ok) ==
    CASE tool.impl = "builtin" /\ tool.name = "openzeppelin_contracts" ->
            OpenZeppelinExecute(params)
      [] tool.impl = "builtin" /\ tool.name = "security_audit" ->
            SecurityAuditExecute(params)
      [] tool.impl = "builtin" /\ tool.name = "gas_optimization" ->
            GasOptimizationExecute(params)
      [] OTHER -> [success |-> ok, data |-> None,
                   error |-> IF ok THEN <<>> ELSE <<"tool error">>]

(***************************************************************************)
(* The Go SDK's tool registry (sdks/go/mcp.go: MCPToolRegistry).  A Go map *)
(* is a function on the set of its keys.                                   *)
(***************************************************************************)
\* Register(tool): r.tools[tool.Name()] = tool
GoRegisterTool(m, tool) ==
    [n \in (DOMAIN m) \cup {tool.name} |-> IF n = tool.name THEN tool ELSE m[n]]

\* Get(name): the tool and whether it exists
GoGet(m, name) ==
    IF name \in DOMAIN m THEN [tool |-> Some(m[name]), exists |-> TRUE]
    ELSE [tool |-> None, exists |-> FALSE]

\* Execute(toolName, params): a failure result for an unknown name, else the
\* tool's own result; ok is whether the tool's Execute reports success
GoExecute(m, toolName, params, ok) ==
    IF ~GoGet(m, toolName).exists
    THEN [success |-> FALSE, data |-> None,
          error |-> <<"Tool ", "not found", ": ", toolName>>]
    ELSE GoToolExecute(GoGet(m, toolName).tool[1], params, ok)

\* the orders in which a range over the map may visit its keys
GoKeyOrders(m) ==
    {names \in [1..Cardinality(DOMAIN m) -> DOMAIN m] :
        \A a, b \in 1..Cardinality(DOMAIN m) : names[a] = names[b] => a = b}

\* NewMCPToolRegistry(): the three default tools registered one after another
NewMCPToolRegistry ==
    GoRegisterTool(
        GoRegisterTool(
            GoRegisterTool(<<>>, [name |-> "openzeppelin_contracts", impl |-> "builtin"]),
            [name |-> "security_audit", impl |-> "builtin"]),
        [name |-> "gas_optimization", impl |-> "builtin"])

\* registry.Register(tool)
GoRegister(tool) ==
    /\ goTools' = GoRegisterTool(goTools, tool)
    /\ goLastReg' = [goLastReg EXCEPT ![tool.name] = tool.impl]
    /\ UNCHANGED <<facade, config, llmProvider, ctorError, mcpTools, lastReg, probe>>
    /\ UNCHANGED goMain
    /\ UNCHANGED callVars
    /\ UNCHANGED cliVars

\* registry.Get(name)
GoGetCall(name) ==
    /\ LET got == GoGet(goTools, name) IN
       probe' = [NoProbe EXCEPT
                    !.op = "Get",
                    !.name = name,
                    !.known = (goLastReg[name] # "none"),
                    !.success = got.exists,
                    !.impl = IF got.exists THEN got.tool[1].impl ELSE "none"]
    /\ UNCHANGED <<facade, config, llmProvider, ctorError, mcpTools, lastReg, goTools,
                   goLastReg>>
    /\ UNCHANGED goMain
    /\ UNCHANGED callVars
    /\ UNCHANGED cliVars

\* registry.Execute(name, params)
GoExecuteCall(name) ==
    /\ \E ok \in BOOLEAN :
          LET res == GoExecute(goTools, name, [query |-> <<>>], ok) IN
          probe' = [NoProbe EXCEPT
                       !.op = "Execute",
                       !.name = name,
                       !.known = (goLastReg[name] # "none"),
                       !.success = res.success,
                       !.error = res.error]
    /\ UNCHANGED <<facade, config, llmProvider, ctorError, mcpTools, lastReg, goTools,
                   goLastReg>>
    /\ UNCHANGED goMain
    /\ UNCHANGED callVars
    /\ UNCHANGED cliVars

\* registry.List(): the keys in the order the range visits them
GoList ==
    /\ \E names \in GoKeyOrders(goTools) :
          probe' = [NoProbe EXCEPT
                       !.op = "List",
                       !.names = names,
                       !.expected = {n \in GoToolNames : goLastReg[n] # "none"}]
    /\ UNCHANGED <<facade, config, llmProvider, ctorError, mcpTools, lastReg, goTools,
                   goLastReg>>
    /\ UNCHANGED goMain
    /\ UNCHANGED callVars
    /\ UNCHANGED cliVars

(***************************************************************************)
(* The Go CLI's analyze command (CHANGELOG.md: analyzeCmd) and direct runs *)
(* of the built-in tools.  The file is a sequence of statements, each a    *)
(* sequence of pieces of text.                                             *)
(***************************************************************************)
NoRun == [op |-> "none", name |-> "", params |-> <<>>,
          result |-> [success |-> FALSE, data |-> None, error |-> <<>>],
          security |-> FALSE, gas |-> FALSE, output |-> <<>>, exit |-> 0]

RECURSIVE Flatten(_)
\* string(code): the statements of the file one after another
Flatten(statements) ==
    IF statements = <<>> THEN <<>> ELSE Head(statements) \o Flatten(Tail(statements))

\* one printed line: its fixed text and the values printed into it
Line(text, args) == [text |-> text, args |-> args]

\* the security branch of analyze
AnalyzeSecurity(code) ==
    LET res == GoExecute(NewMCPToolRegistry, "security_audit",
                         [code |-> GoValue("string", code), language |-> GoValue("string", "solidity")],
                         TRUE)
    IN <<Line("Security Analysis:", <<>>)>>
       \o (IF res.success
           THEN LET data == res.data[1]
                    issues == data.issues
                IN <<Line("Score: %v/100", <<data.score>>)>>
                   \o (IF issues.t = "[]interface{}" /\ Len(issues.v) > 0
                       THEN <<Line("Issues found:", <<>>)>>
                            \o [i \in 1..Len(issues.v) |->
                                  Line(" * %s (%s): %s",
                                       <<issues.v[i].type, issues.v[i].severity,
                                         issues.v[i].message>>)]
                       ELSE <<Line("No security issues found!", <<>>)>>)
           ELSE <<>>)

\* the gas branch of analyze
AnalyzeGas(code) ==
    LET res == GoExecute(NewMCPToolRegistry, "gas_optimization",
                         [code |-> GoValue("string", code)], TRUE)
    IN <<Line("Gas Optimization:", <<>>)>>
       \o (IF res.success
           THEN LET data == res.data[1]
                    suggestions == data.suggestions
                IN <<Line("Optimization Score: %v/100", <<data.optimization_score>>),
                     Line("Estimated Savings: %v", <<data.estimated_total_savings>>)>>
                   \o (IF suggestions.t = "[]interface{}" /\ Len(suggestions.v) > 0
                       THEN <<Line("Suggestions:", <<>>)>>
                            \o [i \in 1..Len(suggestions.v) |->
                                  Line(" * %s: %s (Impact: %s)",
                                       <<suggestions.v[i].type,
                                         suggestions.v[i].suggestion,
                                         suggestions.v[i].impact>>)]
                       ELSE <<Line("Code is well optimized!", <<>>)>>)
           ELSE <<>>)

\* the user writes one more statement into the file, before any command runs
WriteFile(statement) ==
    /\ goOut = NoRun
    /\ Len(goFile) < MaxStmts
    /\ goFile' = Append(goFile, statement)
    /\ UNCHANGED goOut
    /\ UNCHANGED facadeVars
    /\ UNCHANGED callVars

\* registry.Execute(toolName, params) on the default registry
ToolRun(toolName, params) ==
    /\ goOut' = [NoRun EXCEPT !.op = "Execute", !.name = toolName, !.params = params,
                              !.result = GoExecute(goTools, toolName, params, TRUE)]
    /\ UNCHANGED goFile
    /\ UNCHANGED facadeVars
    /\ UNCHANGED callVars

\* registry.Execute("security_audit", params) on the file's code, or with no
\* code, with the language named or left out
AuditRun(withCode, language) ==
    ToolRun("security_audit",
            IF withCode
            THEN IF language = "" THEN [code |-> GoValue("string", Flatten(goFile))]
                 ELSE [code |-> GoValue("string", Flatten(goFile)),
                       language |-> GoValue("string", language)]
            ELSE [language |-> GoValue("string", language)])

\* registry.Execute("gas_optimization", params) on the file's code, or with no code
GasRun(withCode) ==
    ToolRun("gas_optimization",
            IF withCode THEN [code |-> GoValue("string", Flatten(goFile))]
            ELSE [language |-> GoValue("string", "solidity")])

\* craite analyze [file] --security=.. --gas=..; readable is whether
\* ioutil.ReadFile succeeds
Analyze(readable, security, gas) ==
    /\ goOut' =
          IF ~readable
          THEN [NoRun EXCEPT !.op = "analyze", !.security = security, !.gas = gas,
                             !.output = <<Line("Error reading file:", <<>>)>>,
                             !.exit = 1]
          ELSE [NoRun EXCEPT !.op = "analyze", !.security = security, !.gas = gas,
                             !.output =
                                 <<Line("Analyzing: %s", <<>>), Line("----------", <<>>)>>
                                 \o (IF security THEN AnalyzeSecurity(Flatten(goFile))
                                     ELSE <<>>)
                                 \o (IF gas THEN AnalyzeGas(Flatten(goFile)) ELSE <<>>)]
    /\ UNCHANGED goFile
    /\ UNCHANGED facadeVars
    /\ UNCHANGED callVars

(***************************************************************************)
(* The Go SDK's Client (sdks/go/mcp.go) and a program that uses it as the  *)
(* README and examples do.  A key is a sequence of characters.             *)
(***************************************************************************)
Keys == SeqsUpTo({"k", "-", "1"}, MaxKeyLen)

GoPrompts == {<<"Create an ERC-20 token">>, <<"Create a Uniswap-style DEX">>}

\* a client that replaces an empty key
NewClientDefaulting(apiKey) ==
    [APIKey |-> IF apiKey = <<>> THEN <<"k">> ELSE apiKey,
     Endpoint |-> "https://api.craite.ai/v1"]

\* NewClient(apiKey)
NewClient(apiKey) ==
    [APIKey |-> apiKey, Endpoint |-> "https://api.craite.ai/v1"]

\* (c *Client) Generate(prompt): the response pointer and the error, None for nil
ClientGenerate(c, prompt) == [resp |-> None, err |-> None]

NoMain == [at |-> "start", apiKey |-> <<>>, client |-> None, prompt |-> <<>>,
           resp |-> None, err |-> None, out |-> <<>>]

\* client := craite.NewClient(apiKey); with checked, after the program's
\* own test that the key from the environment is not empty
GoNewClient(apiKey, checked) ==
    /\ goMain.at = "start"
    /\ goMain' = IF checked /\ apiKey = <<>>
                 THEN [goMain EXCEPT !.at = "fatal", !.apiKey = apiKey]
                 ELSE [goMain EXCEPT !.at = "created", !.apiKey = apiKey,
                                     !.client = Some(NewClient(apiKey))]
    /\ UNCHANGED <<facade, config, llmProvider, ctorError, mcpTools, lastReg, goTools,
                   goLastReg, probe>>
    /\ UNCHANGED callVars
    /\ UNCHANGED cliVars

\* result, err := client.Generate(prompt)
GoClientGenerate(prompt) ==
    /\ goMain.at = "created"
    /\ LET got == ClientGenerate(goMain.client[1], prompt) IN
       goMain' = [goMain EXCEPT !.at = "called", !.prompt = prompt,
                                !.resp = got.resp, !.err = got.err]
    /\ UNCHANGED <<facade, config, llmProvider, ctorError, mcpTools, lastReg, goTools,
                   goLastReg, probe>>
    /\ UNCHANGED callVars
    /\ UNCHANGED cliVars

\* if err != nil { log.Fatal(err) }; fmt.Println(result.Code): reading a field
\* through a nil pointer panics
GoUseResult ==
    /\ goMain.at = "called"
    /\ goMain' = CASE goMain.err # None -> [goMain EXCEPT !.at = "fatal"]
                   [] goMain.resp = None -> [goMain EXCEPT !.at = "panicked"]
                   [] OTHER -> [goMain EXCEPT !.at = "printed",
                                              !.out = goMain.resp[1].Code]
    /\ UNCHANGED <<facade, config, llmProvider, ctorError, mcpTools, lastReg, goTools,
                   goLastReg, probe>>
    /\ UNCHANGED callVars
    /\ UNCHANGED cliVars

\* extractCodeFromResponse(text) called on its own
Extract(text) ==
    /\ pc = "idle"
    /\ result.status = "none"
    /\ req' = [NoReq EXCEPT !.op = "extract"]
    /\ reply' = Some([kind |-> "ok", status |-> 200, text |-> text])
    /\ LET extracted == extractCodeFromResponse(text) IN
       result' = Returned([code |-> extracted.code, language |-> Undefined,
                           explanation |-> extracted.explanation, toolsUsed |-> <<>>])
    /\ UNCHANGED <<pc, idx, toolsUsed, toolResults, execLog, mode, httpCalls, sent>>
    /\ UNCHANGED running
    /\ UNCHANGED facadeVars
    /\ UNCHANGED cliVars

\* the caller's await resumes with the settled promise; the invocation's locals are gone
Settle ==
    /\ pc = "idle"
    /\ result.status \in {"returned", "rejected"}
    /\ req' = NoReq
    /\ idx' = 0
    /\ toolsUsed' = <<>>
    /\ toolResults' = <<>>
    /\ execLog' = <<>>
    /\ mode' = Undefined
    /\ httpCalls' = 0
    /\ sent' = <<>>
    /\ reply' = None
    /\ result' = NoResult
    /\ UNCHANGED pc
    /\ UNCHANGED running
    /\ UNCHANGED facadeVars
    /\ UNCHANGED cliVars

(***************************************************************************)
(* Specifications.                                                         *)
(***************************************************************************)
\* the configurations the tool-loop specification constructs the facade from
ToolConfigs ==
    [apiKey : {"sk-live"}, provider : {"openai", "anthropic"}, style : {Undefined},
     mcpTools : {<<>>, <<"scan">>}]

\* the texts the provider answers with in the tool-loop specification
SampleTexts == {<<"a">>, <<BT, BT, BT, NL, "a", NL, BT, BT, BT, NL, "a">>}

Requests(op, toolLists) ==
    [op : {op}, prompt : Prompts, language : {Undefined}, mode : {Undefined},
     tools : toolLists]

Init ==
    /\ facade = "none"
    /\ config = NoConfig
    /\ llmProvider = Undefined
    /\ ctorError = <<>>
    /\ mcpTools = <<>>
    /\ lastReg = [n \in ToolNames |-> "none"]
    /\ goTools = NewMCPToolRegistry
    /\ goLastReg = [n \in GoToolNames |-> IF n \in GoBuiltins THEN "builtin" ELSE "none"]
    /\ probe = NoProbe
    /\ goMain = NoMain
    /\ goFile = <<>>
    /\ goOut = NoRun
    /\ running = <<>>
    /\ pc = "idle"
    /\ req = NoReq
    /\ idx = 0
    /\ toolsUsed = <<>>
    /\ toolResults = <<>>
    /\ execLog = <<>>
    /\ mode = Undefined
    /\ httpCalls = 0
    /\ sent = <<>>
    /\ reply = None
    /\ result = NoResult

Next ==
    \/ \E cfg \in ToolConfigs : Construct(cfg)
    \/ \E name \in ToolNames : registerTool([name |-> name, impl |-> "v1"])
    \/ \E o \in Requests("generate", {<<>>}) : generate(o)
    \/ \E o \in Requests("generateWithTools", SeqsUpTo(ToolNames, MaxTools)) :
            generateWithTools(o)
    \/ ToolStep
    \/ ToolReturn
    \/ GenerateWithToolsSend
    \/ ProviderReplies(SampleTexts)
    \/ \E p \in GoProviders, o \in Requests("ApiClient.Generate", {<<>>}) :
            ApiClientGenerate([provider |-> p, apiKey |-> "sk-live"], o)
    \/ \E r \in Replies(SampleTexts) : ApiClientReply(r)
    \/ Settle

Spec == Init /\ [][Next]_vars


NextCtor ==
    \/ \E cfg \in [apiKey : ApiKeys, provider : Providers, style : Styles,
                   mcpTools : {<<>>, <<"scan">>}] : Construct(cfg)
    \/ \E o \in [op : {"generate"}, prompt : Prompts, language : Languages, mode : Modes,
                 tools : {<<>>}] : generate(o)
    \/ ProviderReplies(SampleTexts)
    \/ Settle

\* construction from any configuration, then plain generate calls
SpecCtor == Init /\ [][NextCtor]_vars

\* the pieces response texts are put together from: a fence, a word character,
\* a newline, a character that is neither word nor space
Segments == {<<BT, BT, BT>>, <<"a">>, <<NL>>, <<"+">>}

RECURSIVE TextsOf(_)
\* the texts of at most n segments
TextsOf(n) ==
    IF n = 0 THEN {<<>>}
    ELSE LET shorter == TextsOf(n - 1) IN
         shorter \cup {t \o seg : t \in shorter, seg \in Segments}

AllTexts == TextsOf(MaxSegs)

\* the configurations the extraction specification constructs the facade from
GenConfigs ==
    [apiKey : {"sk-live"}, provider : {"openai", "anthropic"}, style : Styles,
     mcpTools : {<<>>}]

NextGen ==
    \/ \E cfg \in GenConfigs : Construct(cfg)
    \/ \E o \in [op : {"generate"}, prompt : Prompts, language : {Undefined}, mode : Modes,
                 tools : {<<>>}] : generate(o)
    \/ ProviderReplies(AllTexts)
    \/ Settle

\* plain generate calls answered with every text of the bound
SpecGen == Init /\ [][NextGen]_vars

\* the names and tools callers register with the Go registry
GoRegistered == [name : {"security_audit", "custom_lint"}, impl : {"v1", "v2"}]

\* the configurations the registry specification constructs the facade from
RegistryConfigs ==
    [apiKey : {"sk-live"}, provider : {"openai"}, style : {Undefined},
     mcpTools : {<<>>, <<"scan">>}]

NextRegistry ==
    \/ \E cfg \in RegistryConfigs : Construct(cfg)
    \/ \E tool \in [name : ToolNames, impl : {"v1", "v2"}] : registerTool(tool)
    \/ \E name \in ToolNames : UseTool(name)
    \/ getAvailableTools
    \/ \E tool \in GoRegistered : GoRegister(tool)
    \/ \E name \in GoToolNames : GoGetCall(name)
    \/ \E name \in GoToolNames : GoExecuteCall(name)
    \/ GoList

\* the two tool registries under registration, lookup, listing and execution
SpecRegistry == Init /\ [][NextRegistry]_vars

\* the exchanges of the HTTP specification: success statuses 200 and 201 with
\* every body shape, an error status with a body, and no response at all
HttpReplies ==
    {[kind |-> "ok", status |-> st, text |-> t] : st \in {200, 201}, t \in SampleTexts}
        \cup {[kind |-> k, status |-> st, text |-> <<>>] :
                 k \in {"malformed", "badelem", "garbled"}, st \in {200, 201}}
        \cup {[kind |-> "status", status |-> 500, text |-> b] : b \in {<<"rate limit exceeded">>}}
        \cup {[kind |-> "transport", status |-> 0, text |-> <<>>]}

NextHttp ==
    \/ \E cfg \in ToolConfigs : Construct(cfg)
    \/ \E o \in Requests("generate", {<<>>}) : generate(o)
    \/ \E r \in HttpReplies : ProviderReply(r)
    \/ \E p \in GoProviders, o \in Requests("ApiClient.Generate", {<<>>}) :
            ApiClientGenerate([provider |-> p, apiKey |-> "sk-live"], o)
    \/ \E r \in HttpReplies : ApiClientReply(r)
    \/ Settle

\* one request of each adapter answered by every kind of HTTP exchange
SpecHttp == Init /\ [][NextHttp]_vars

\* the parts extracted texts are put together from: the segments, and a whole
\* fenced block with a hint and a two-line interior
Parts ==
    Segments \cup {<<BT, BT, BT, "a", NL, "+", NL, "a", NL, BT, BT, BT>>}

RECURSIVE PartTextsOf(_)
\* the texts of at most n parts
PartTextsOf(n) ==
    IF n = 0 THEN {<<>>}
    ELSE LET shorter == PartTextsOf(n - 1) IN
         shorter \cup {t \o part : t \in shorter, part \in Parts}

ExtractTexts == PartTextsOf(MaxParts)

\* the extraction is applied to one of the texts
Extracts ==
    /\ result.status = "none"
    /\ \E t \in ExtractTexts : Extract(t)

NextExtract ==
    \/ Extracts
    \/ Settle

\* the extraction applied to every text of the bound
SpecExtract == Init /\ [][NextExtract]_vars

NextClient ==
    \/ \E key \in Keys, checked \in BOOLEAN : GoNewClient(key, checked)
    \/ \E prompt \in GoPrompts : GoClientGenerate(prompt)
    \/ GoUseResult

\* a Go program that makes a client from any key, generates, and reads the code
SpecClient == Init /\ [][NextClient]_vars

\* mode values of every kind: the two known ones, absent, and values that are
\* neither, one of them a key every JavaScript object inherits
AnyModes == Modes \cup {"concise", "constructor"}

NextModes ==
    \/ \E cfg \in GenConfigs : Construct(cfg)
    \/ \E o \in [op : {"generate"}, prompt : Prompts, language : {Undefined},
                 mode : AnyModes, tools : {<<>>}] : generate(o)
    \/ ProviderReplies(SampleTexts)
    \/ \E p \in GoProviders,
          o \in [op : {"ApiClient.Generate"}, prompt : Prompts, language : {Undefined},
                 mode : AnyModes, tools : {<<>>}] :
            ApiClientGenerate([provider |-> p, apiKey |-> "sk-live"], o)
    \/ \E r \in Replies(SampleTexts) : ApiClientReply(r)
    \/ Settle

\* requests of every mode value composed and sent by the facade and by the Go client
SpecModes == Init /\ [][NextModes]_vars

NextPlain ==
    \/ \E cfg \in [apiKey : {"sk-live"}, provider : {"openai", "anthropic"},
                   style : Styles, mcpTools : {<<>>, <<"scan">>}] : Construct(cfg)
    \/ \E o \in [op : {"generate"}, prompt : Prompts, language : Languages,
                 mode : Modes, tools : {<<>>}] : generate(o)
    \/ \E o \in [op : {"generateWithTools"}, prompt : Prompts, language : Languages,
                 mode : Modes, tools : SeqsUpTo(ToolNames, MaxTools)] :
            generateWithTools(o)
    \/ ToolStep
    \/ ToolReturn
    \/ GenerateWithToolsSend
    \/ ProviderReplies(SampleTexts)
    \/ Settle

\* generate and generateWithTools calls of every mode under every style
SpecPlain == Init /\ [][NextPlain]_vars

NextConfig ==
    \/ \E cfg \in GenConfigs : Construct(cfg)
    \/ getConfig
    \/ \E provider \in Providers : SetCopyProvider(provider)
    \/ \E style \in Styles : SetCopyOutputStyle(style)
    \/ \E style \in Styles : SetConstructorArgStyle(style)
    \/ \E o \in Requests("generate", {<<>>}) : generate(o)
    \/ ProviderReplies(SampleTexts)
    \/ Settle

\* callers that change the objects they hold between generate calls
SpecConfig == Init /\ [][NextConfig]_vars

\* requests that name or leave out a temperature (in tenths) and maxTokens
OptionRequests(op) ==
    [op : {op}, prompt : Prompts, language : {Undefined}, mode : {Undefined},
     tools : {<<>>}, temperature : {None, Some(0), Some(2), Some(10)},
     maxTokens : {None, Some(1), Some(4000)}]

NextOptions ==
    \/ \E cfg \in GenConfigs : Construct(cfg)
    \/ \E o \in OptionRequests("generate") : generate(o)
    \/ ProviderReplies(SampleTexts)
    \/ \E p \in GoProviders, o \in OptionRequests("ApiClient.Generate") :
            ApiClientGenerate([provider |-> p, apiKey |-> "sk-live"], o)
    \/ \E r \in Replies(SampleTexts) : ApiClientReply(r)
    \/ Settle

\* requests with sampling options sent by the facade and by the Go client
SpecOptions == Init /\ [][NextOptions]_vars

\* the statements the analysed file is written from
Statements ==
    { <<".call{value:">>, <<"call.value">>, <<"tx.origin", "block.timestamp">>,
      <<"delegatecall">>, <<"string ", "name">>, <<"string ", "memory">>,
      <<"for (", ".length", "i++">>, <<"public", "storage", "=">>, <<"external">> }

\* the params a caller gives the template tool: a contract type (known, unknown,
\* empty or left out) and a list of features (as a []string, as a []interface{},
\* or left out)
TemplateParams ==
    LET ContractTypes == {"ERC20", "ERC721", "ERC1155", "ERC777", ""}
        FeatureLists ==
            SeqsUpTo({"Mintable", "Burnable", "Enumerable", "Supply", "Votes"}, MaxFeatures)
    IN { [features |-> GoValue("[]string", f)] : f \in FeatureLists }
       \cup { [contract_type |-> GoValue("string", k), features |-> GoValue("[]string", f)] :
                 k \in ContractTypes, f \in FeatureLists }
       \cup { [contract_type |-> GoValue("string", k)] : k \in ContractTypes }
       \cup { [contract_type |-> GoValue("string", k),
               features |-> GoValue("[]interface{}", <<"Mintable">>)] :
                 k \in ContractTypes }

NextTemplate ==
    \E params \in TemplateParams : ToolRun("openzeppelin_contracts", params)

\* the template tool run on every request
SpecTemplate == Init /\ [][NextTemplate]_vars

NextScan ==
    \/ \E statement \in Statements : WriteFile(statement)
    \/ \E withCode \in BOOLEAN, language \in {"", "solidity", "rust"} :
            AuditRun(withCode, language)
    \/ \E withCode \in BOOLEAN : GasRun(withCode)
    \/ \E readable, security, gas \in BOOLEAN : Analyze(readable, security, gas)

\* a file written, then scanned by the built-in tools and the analyze command
SpecScan == Init /\ [][NextScan]_vars

(***************************************************************************)
(* Helpers of the properties.                                              *)
(***************************************************************************)
RECURSIVE NamesWith(_, _)
\* the names of the log entries whose outcome is in outcomes, in log order
NamesWith(log, outcomes) ==
    IF log = <<>> THEN <<>>
    ELSE (IF Head(log).outcome \in outcomes THEN <<Head(log).name>> ELSE <<>>)
            \o NamesWith(Tail(log), outcomes)

RECURSIVE IsSubseq(_, _)
\* a is b with some elements left out
IsSubseq(a, b) ==
    IF a = <<>> THEN TRUE
    ELSE IF b = <<>> THEN FALSE
    ELSE IF Head(a) = Head(b) THEN IsSubseq(Tail(a), Tail(b))
    ELSE IsSubseq(a, Tail(b))

LogHas(outcomes) == \E k \in 1..Len(execLog) : execLog[k].outcome \in outcomes

ReplyFailed == reply # None /\ reply[1].kind # "ok"

FinishedWithTools ==
    /\ req.op = "generateWithTools"
    /\ pc = "idle"
    /\ result.status \in {"returned", "rejected"}

(***************************************************************************)
(* C1.  Every name in the toolsUsed a generateWithTools call returns is a  *)
(* tool whose execute result in this call had success = true; a tool whose *)
(* execute returned success = false is never listed.                       *)
(***************************************************************************)
C1_ToolsUsedOnlySuccessful ==
    (req.op = "generateWithTools" /\ result.status = "returned") =>
        /\ \A k \in 1..Len(result.toolsUsed) :
              \E j \in 1..Len(execLog) :
                 /\ execLog[j].name = result.toolsUsed[k]
                 /\ execLog[j].outcome = "success"
        /\ Len(result.toolsUsed) = Len(NamesWith(execLog, {"success"}))

(***************************************************************************)
(* C2.  When a requested, registered tool throws or rejects while          *)
(* executing, generateWithTools still calls the provider and returns a     *)
(* result without that tool in toolsUsed: the tool's failure never reaches *)
(* the caller.                                                             *)
(***************************************************************************)
C2_ToolFailureNotPropagated ==
    (FinishedWithTools /\ LogHas({"threw"})) =>
        /\ httpCalls = 1
        /\ ~ReplyFailed => result.status = "returned"

(***************************************************************************)
(* C3.  An unregistered name in the requested list never fails the call:   *)
(* it is skipped and left out of toolsUsed, every registered tool that     *)
(* succeeded is in toolsUsed, and the provider is still called.  The call  *)
(* is rejected only by a registered tool's own throw or by the provider.   *)
(***************************************************************************)
C3_UnregisteredNamesSkipped ==
    req.op = "generateWithTools" =>
        /\ \A k \in 1..Len(execLog) :
              ~execLog[k].registered => execLog[k].outcome = "skipped"
        /\ IsSubseq(NamesWith(execLog, {"success"}), toolsUsed)
        /\ IsSubseq(toolsUsed, NamesWith(execLog, {"success", "failure", "void", "threw"}))
        /\ result.status = "rejected" => (LogHas({"threw"}) \/ ReplyFailed)
        /\ (FinishedWithTools /\ ~LogHas({"threw"})) =>
              /\ httpCalls = 1
              /\ Len(execLog) = Len(req.tools)
        /\ result.status = "returned" => result.toolsUsed = toolsUsed

\* a call with an unregistered and a successful registered name has returned
C3_Witness ==
    /\ FinishedWithTools
    /\ result.status = "returned"
    /\ LogHas({"skipped"})
    /\ LogHas({"success"})
    /\ Len(result.toolsUsed) = 1
    /\ httpCalls = 1

(***************************************************************************)
(* C4.  The toolsUsed a generateWithTools call returns is exactly the      *)
(* subsequence of the requested names whose tools succeeded, in requested  *)
(* order.                                                                  *)
(***************************************************************************)
C4_ToolsUsedIsSuccessfulSubsequence ==
    (req.op = "generateWithTools" /\ result.status = "returned") =>
        result.toolsUsed = NamesWith(execLog, {"success"})

(***************************************************************************)
(* C10.  An invocation of generate or generateWithTools sends at most one  *)
(* HTTP request; when the exchange fails no second request follows and the *)
(* failure is what the caller gets.                                        *)
(***************************************************************************)
C10_AtMostOneRequest ==
    /\ httpCalls <= 1
    /\ Len(sent) = httpCalls
    /\ pc \in {"http", "gohttp"} => httpCalls = 1
    /\ reply # None => httpCalls = 1
    /\ (reply # None /\ reply[1].kind \in {"status", "transport"}) =>
          /\ pc = "idle"
          /\ result.status = "rejected"
          /\ result.error # <<>>

\* a generateWithTools call whose one request failed has been rejected
C10_Witness ==
    /\ FinishedWithTools
    /\ ReplyFailed
    /\ result.status = "rejected"
    /\ httpCalls = 1
    /\ LogHas({"success"})


\* t holds a fenced block: a fence, word characters, a newline, an interior, a
\* newline and a fence; a character that is no white space follows the block
FencedBlockThenProse(t) ==
    \E i \in 1..Len(t) :
        /\ IsFenceAt(t, i)
        /\ \E j \in (i + 3)..Len(t) :
              /\ t[j] = NL
              /\ \A w \in (i + 3)..(j - 1) : t[w] \in WordChars
              /\ \E k \in (j + 1)..Len(t) :
                    /\ t[k] = NL
                    /\ IsFenceAt(t, k + 1)
                    /\ \E q \in (k + 4)..Len(t) : t[q] \notin SpaceChars

\* the mode a request runs in: its own, else the configured style, else production
RequestedMode ==
    IF req.mode # Undefined THEN req.mode
    ELSE IF config.style # Undefined THEN config.style
    ELSE "production"

C8_ConstructionByProviderKind ==
    facade # "none" =>
        /\ config.provider \in {"openai", "anthropic", "local"} => facade = "ready"
        /\ (~Falsy(config.provider) /\ config.provider \notin {"openai", "anthropic", "local"})
              => facade = "failed"

(***************************************************************************)
(* C9.  Constructing the facade without an API key (absent or empty) fails *)
(* at construction, so no request is ever sent with an empty credential.   *)
(***************************************************************************)
C9_MissingCredentialRejected ==
    /\ (facade # "none" /\ Falsy(config.apiKey)) => facade = "failed"
    /\ \A k \in 1..Len(sent) : ~Falsy(sent[k].credential)

\* tok is one of the pieces of the message
Mentions(message, tok) == \E k \in 1..Len(message) : message[k] = tok

NoDuplicates(names) ==
    \A a, b \in 1..Len(names) : names[a] = names[b] => a = b

ElementsOf(names) == {names[k] : k \in 1..Len(names)}

(***************************************************************************)
(* C6.  Executing a tool by a name that is not registered never throws,    *)
(* panics or rejects: the caller receives a tool result with success =     *)
(* false whose error message contains "not found" and the requested name.  *)
(***************************************************************************)
C6_UnknownToolIsFailureResult ==
    (probe.op \in {"useTool", "Execute"} /\ ~probe.known) =>
        /\ ~probe.threw
        /\ ~probe.success
        /\ Mentions(probe.error, "not found")
        /\ Mentions(probe.error, probe.name)

(***************************************************************************)
(* C7.  In both registries names are unique and the last registration of a *)
(* name wins: a name is present exactly when it was registered, a lookup   *)
(* or execution reaches the tool registered last under it, a listing shows *)
(* every registered name exactly once, and registering a name again leaves *)
(* the tools under all other names as they were.                           *)
(***************************************************************************)
C7_LastRegistrationWins ==
    /\ NoDuplicates(MapKeys(mcpTools))
    /\ \A n \in ToolNames :
          /\ MapHas(mcpTools, n) <=> lastReg[n] # "none"
          /\ lastReg[n] # "none" =>
                MapGet(mcpTools, n) = Some([name |-> n, impl |-> lastReg[n]])
    /\ \A n \in GoToolNames :
          /\ GoGet(goTools, n).exists <=> goLastReg[n] # "none"
          /\ goLastReg[n] # "none" =>
                GoGet(goTools, n).tool = Some([name |-> n, impl |-> goLastReg[n]])
    /\ probe.op \in {"getAvailableTools", "List"} =>
          /\ NoDuplicates(probe.names)
          /\ ElementsOf(probe.names) = probe.expected

\* a stub tool and a built-in tool have both been replaced by a later
\* registration, next to other tools, and the facade's names have been listed
C7_Witness ==
    /\ config.mcpTools = <<"scan">>
    /\ lastReg["scan"] = "v2"
    /\ lastReg["lint"] = "v1"
    /\ probe.op = "getAvailableTools"
    /\ probe.names = <<"scan", "lint">>
    /\ goLastReg["security_audit"] = "v1"
    /\ goLastReg["custom_lint"] = "v2"
    /\ Cardinality(DOMAIN goTools) = 4

\* part occurs in message as a run of consecutive pieces
Carries(message, part) ==
    \E i \in 1..(Len(message) - Len(part) + 1) :
        SubSeq(message, i, i + Len(part) - 1) = part

\* an adapter call has finished on an HTTP response
AnsweredCall ==
    /\ req.op \in {"generate", "ApiClient.Generate"}
    /\ pc = "idle"
    /\ reply # None
    /\ reply[1].kind # "transport"

SuccessStatus(n) == n >= 200 /\ n < 300

\* the call failed with an error that names the response's status code
UpstreamError ==
    /\ result.status = "rejected"
    /\ Mentions(result.error, StatusText(reply[1].status))

(***************************************************************************)
(* C11.  An adapter call answered with a non-success HTTP status fails     *)
(* with an error carrying the status code and the response body, and       *)
(* returns no result; a response with a success status is never reported   *)
(* as an upstream error.                                                   *)
(***************************************************************************)
C11_UpstreamErrorCarriesStatusAndBody ==
    AnsweredCall =>
        /\ ~SuccessStatus(reply[1].status) =>
              /\ UpstreamError
              /\ Carries(result.error, reply[1].text)
        /\ SuccessStatus(reply[1].status) => ~UpstreamError

(***************************************************************************)
(* C12.  An adapter call answered with a successful response that lacks    *)
(* the field the provider variant expects fails with an error; it never    *)
(* returns a generation result.                                            *)
(***************************************************************************)
C12_MalformedResponseRejected ==
    (AnsweredCall /\ reply[1].status = 200 /\ reply[1].kind = "malformed") =>
        result.status = "rejected"

\* in t a fenced block opens at i: a fence, a hint of word characters ending
\* with the newline at j, an interior, the newline at k and the closing fence
Block(t, i, j, k) ==
    /\ IsFenceAt(t, i)
    /\ j >= i + 3 /\ j <= Len(t) /\ t[j] = NL
    /\ \A w \in (i + 3)..(j - 1) : t[w] \in WordChars
    /\ k > j /\ t[k] = NL
    /\ IsFenceAt(t, k + 1)

\* the positions of t where a fence stands, and those where a newline stands
FencePositions(t) == {i \in 1..Len(t) : IsFenceAt(t, i)}

NewlinePositions(t) == {j \in 1..Len(t) : t[j] = NL}

\* the fenced blocks of t, each by its three positions
Blocks(t) ==
    UNION {UNION {{[i |-> i, j |-> j, k |-> k] :
                      k \in {x \in NewlinePositions(t) : Block(t, i, j, x)}} :
                  j \in {x \in NewlinePositions(t) : x >= i + 3}} :
           i \in FencePositions(t)}

HasFencedBlock(t) == Blocks(t) # {}

\* among blocks, b opens first and is closed by the first fence that can close it
IsFirstBlock(b, blocks) ==
    /\ b \in blocks
    /\ \A c \in blocks : c.i > b.i \/ (c.i = b.i /\ c.k >= b.k)

\* x is r without the white space at its two ends
IsTrimOf(x, r) ==
    \E a \in 1..(Len(r) + 1), b \in 0..Len(r) :
        /\ x = SubSeq(r, a, b)
        /\ \A w \in 1..(a - 1) : r[w] \in SpaceChars
        /\ \A w \in (b + 1)..Len(r) : r[w] \in SpaceChars
        /\ x # <<>> => (x[1] \notin SpaceChars /\ x[Len(x)] \notin SpaceChars)

\* the extraction was applied to a text and has returned
Extracted == req.op = "extract" /\ result.status = "returned"

(***************************************************************************)
(* C13.  Extracting from a text that holds no fenced code block returns    *)
(* the whole text, unchanged, as code and no explanation.                  *)
(***************************************************************************)
C13_NoBlockWholeTextIsCode ==
    (Extracted /\ ~HasFencedBlock(reply[1].text)) =>
        /\ result.code = reply[1].text
        /\ result.explanation = None

\* a text that opens a fence and never closes it came back whole, its leading newline kept
C13_Witness ==
    /\ Extracted
    /\ ~HasFencedBlock(reply[1].text)
    /\ reply[1].text = <<NL, BT, BT, BT, "a", NL, "+">>
    /\ result.code = reply[1].text

C16_NewClientKeepsKey ==
    goMain.client # None => goMain.client[1].APIKey = goMain.apiKey

\* clients made from the empty key and from a key of the greatest length
C16_Witness ==
    /\ goMain.client # None
    /\ goMain.apiKey \in {<<>>, <<"k", "-", "1">>}
    /\ goMain.client[1].APIKey = goMain.apiKey

(***************************************************************************)
(* C17.  Whenever Client.Generate returns a nil error, its response is not *)
(* nil, so that the Code field can be read without a nil check as the      *)
(* documented usage does.                                                  *)
(***************************************************************************)
C17_NilErrorMeansResponse ==
    /\ (goMain.at \in {"called", "printed", "panicked"} /\ goMain.err = None) =>
          goMain.resp # None
    /\ goMain.at # "panicked"

(***************************************************************************)
(* C18.  generateWithTools executes the requested tools one at a time in   *)
(* the requested order: at most one execution is in flight, it is that of  *)
(* the name the loop stands at, every execution gets {query: the caller's  *)
(* prompt}, and when the provider's request is sent every requested name   *)
(* has been passed and no execution is in flight.                          *)
(***************************************************************************)
C18_ToolsRunSequentiallyBeforeProvider ==
    req.op = "generateWithTools" =>
        /\ Len(running) <= 1
        /\ running # <<>> =>
              /\ pc = "awaitTool"
              /\ running[1].name = req.tools[idx]
              /\ running[1].params = [query |-> req.prompt]
        /\ Len(execLog) <= Len(req.tools)
        /\ \A k \in 1..Len(execLog) :
              /\ execLog[k].name = req.tools[k]
              /\ execLog[k].params = [query |-> req.prompt]
        /\ pc \in {"tools", "awaitTool"} => Len(execLog) = idx - 1
        /\ httpCalls > 0 =>
              /\ running = <<>>
              /\ Len(execLog) = Len(req.tools)

\* two different registered tools were executed, then the request was sent
C18_Witness ==
    /\ req.op = "generateWithTools"
    /\ req.tools = <<"lint", "scan">>
    /\ Len(execLog) = 2
    /\ execLog[1].outcome \in {"success", "failure", "void"}
    /\ execLog[2].outcome \in {"success", "failure", "void"}
    /\ running = <<>>
    /\ httpCalls = 1

\* the instruction sentences of the production mode and of the educational mode
ProductionTexts == {ProductionInstruction, CleanSentence}

EducationalTexts == {EducationalInstruction, LearnSentence}

\* the pieces of the request that was sent: system prompt and user message
SentPieces == ElementsOf(sent[1].system) \cup ElementsOf(sent[1].user)

(***************************************************************************)
(* C19.  generate resolves the mode as the request's mode, else the        *)
(* configured style, else production, and this resolved mode decides the   *)
(* mode instruction of the composed prompt and whether the explanation is  *)
(* kept: a prompt composed for one of the two modes holds that mode's      *)
(* instruction and none of the other mode's.                               *)
(***************************************************************************)
C19_ResolvedModeDecidesPromptAndExplanation ==
    (req.op = "generate" /\ sent # <<>>) =>
        /\ RequestedMode = "educational" =>
              /\ EducationalInstruction \in SentPieces
              /\ SentPieces \cap ProductionTexts = {}
        /\ RequestedMode = "production" =>
              /\ ProductionInstruction \in SentPieces
              /\ SentPieces \cap EducationalTexts = {}
        /\ result.status = "returned" =>
              result.explanation =
                  IF RequestedMode = "educational"
                  THEN extractCodeFromResponse(reply[1].text).explanation
                  ELSE None

(***************************************************************************)
(* C20.  For a mode value other than production and educational the        *)
(* prompt is composed without error and holds neither the production nor   *)
(* the educational instruction: it is the prompt with no mode instruction. *)
(***************************************************************************)
C20_UnknownModeAddsNoInstruction ==
    (req.op \in {"generate", "ApiClient.Generate"}
        /\ req.mode \notin {Undefined, "production", "educational"}) =>
        /\ sent # <<>>
        /\ SentPieces \cap (ProductionTexts \cup EducationalTexts) = {}
        /\ req.op = "ApiClient.Generate" => sent[1].system = <<buildSystemPrompt>>

\* the heading enhancePromptWithToolResults puts before the tool context
ContextHeading == "\n\nAdditional context from MCP tools:\n"

RECURSIVE ToolLabels(_)
\* the labels of a message: the pieces that follow each "Tool: " piece, in order
ToolLabels(message) ==
    IF Len(message) < 2 THEN <<>>
    ELSE IF Head(message) = "Tool: "
         THEN <<message[2]>> \o ToolLabels(Tail(Tail(message)))
         ELSE ToolLabels(Tail(message))

\* the message ends with the pieces of part
EndsWith(message, part) ==
    /\ Len(part) <= Len(message)
    /\ SubSeq(message, Len(message) - Len(part) + 1, Len(message)) = part

(***************************************************************************)
(* C21.  When tools contributed context, the prompt generateWithTools      *)
(* sends holds the user prompt, then the additional-context heading, then  *)
(* one entry per contributing tool, each labelled with the name recorded   *)
(* in toolsUsed for that entry; with no contributed context the prompt is  *)
(* sent unchanged, with no heading.                                        *)
(***************************************************************************)
C21_ToolContextLabelledByToolName ==
    (req.op = "generateWithTools" /\ sent # <<>>) =>
        LET user == sent[1].user IN
        IF toolResults = <<>>
        THEN /\ ~Mentions(user, ContextHeading)
             /\ EndsWith(user, req.prompt)
        ELSE /\ \E k \in 1..Len(user) :
                   /\ user[k] = ContextHeading
                   /\ EndsWith(SubSeq(user, 1, k - 1), req.prompt)
                   /\ \A j \in 1..Len(user) : user[j] = "Tool: " => j > k
             /\ ToolLabels(user) = toolsUsed

\* the template tool was run directly
TemplateRan == goOut.op = "Execute" /\ goOut.name = "openzeppelin_contracts"

\* the contract kind a request to the template tool asks for: the one it names,
\* ERC20 when it names none
RequestedKind ==
    LET given == Param(goOut.params, "contract_type")
    IN IF given.t = "string" /\ given.v # "" THEN given.v ELSE "ERC20"

\* the features a request to the template tool asks for, as a list of strings
RequestedFeatures ==
    LET given == Param(goOut.params, "features")
    IN IF given.t = "[]string" THEN given.v ELSE <<>>

\* the feature is one the kind's template lists
Recognized(kind, feature) ==
    \E i \in 1..Len(OpenZeppelinContracts[kind].Features) :
        OpenZeppelinContracts[kind].Features[i] = feature

(***************************************************************************)
(* C22.  The template tool fails for an unknown contract kind.  For a      *)
(* known kind it succeeds with no error, echoes exactly the requested      *)
(* features recognized for the kind, in requested order, drops the others, *)
(* and returns the base import followed by one import per echoed feature,  *)
(* together with the kind's template body.                                 *)
(***************************************************************************)
C22_TemplateToolEchoesRecognizedFeatures ==
    TemplateRan =>
        LET res == goOut.result
            kind == RequestedKind
        IN IF kind \notin {"ERC20", "ERC721", "ERC1155"}
           THEN /\ ~res.success
                /\ res.data = None
                /\ Mentions(res.error, kind)
           ELSE /\ res.success
                /\ res.error = <<>>
                /\ LET data == res.data[1]
                       echoed == SelectSeq(RequestedFeatures,
                                           LAMBDA f : Recognized(kind, f))
                   IN /\ data.features = echoed
                      /\ Len(data.imports) = 1 + Len(echoed)
                      /\ Mentions(data.imports[1], OpenZeppelinContracts[kind].Base)
                      /\ \A i \in 1..Len(echoed) :
                            /\ Mentions(data.imports[i + 1], echoed[i])
                            /\ Mentions(data.imports[i + 1], kind)
                      /\ data.template = OpenZeppelinContracts[kind].Template

\* an ERC20 request naming a recognized and an unrecognized feature was answered
\* with the recognized one only
C22_Witness ==
    /\ TemplateRan
    /\ RequestedKind = "ERC20"
    /\ RequestedFeatures = <<"Enumerable", "Mintable">>
    /\ goOut.result.success
    /\ goOut.result.data[1].features = <<"Mintable">>
    /\ Len(goOut.result.data[1].imports) = 2

\* a built-in scanning tool was run directly and gave its result
AuditRan == goOut.op = "Execute" /\ goOut.name = "security_audit"

GasRan == goOut.op = "Execute" /\ goOut.name = "gas_optimization"

\* max(0, n)
AtLeastZero(n) == IF n > 0 THEN n ELSE 0

(***************************************************************************)
(* C23.  In every result of the security audit tool the score is           *)
(* max(0, 100 - 20 x the number of issues of that result), and in every    *)
(* result of the gas tool the optimization score is                        *)
(* max(0, 100 - 10 x the number of suggestions of that result).            *)
(***************************************************************************)
C23_ScoreIsPenaltyTimesFindings ==
    /\ AuditRan =>
          /\ goOut.result.success
          /\ goOut.result.data[1].score =
                AtLeastZero(100 - 20 * Len(goOut.result.data[1].issues.v))
    /\ GasRan =>
          /\ goOut.result.success
          /\ goOut.result.data[1].optimization_score =
                AtLeastZero(100 - 10 * Len(goOut.result.data[1].suggestions.v))

\* the gas tool scored a code with three suggestions
C23_Witness ==
    /\ GasRan
    /\ Len(goOut.result.data[1].suggestions.v) = 3
    /\ goOut.result.data[1].optimization_score = 70

\* the code and the language a run of the audit tool was given
AuditedCode ==
    LET given == Param(goOut.params, "code")
    IN IF given.t = "string" THEN given.v ELSE <<>>

AuditedLanguage ==
    LET given == Param(goOut.params, "language")
    IN IF given.t = "string" /\ given.v # "" THEN given.v ELSE "solidity"

\* the fixed check list, in definition order
CheckTypes == <<"reentrancy", "access_control", "timestamp_dependence", "delegatecall">>

\* a trigger string of the check occurs in the code
Triggered(code, type) ==
    CASE type = "reentrancy" -> Mentions(code, "call.value") \/ Mentions(code, ".call{value:")
      [] type = "access_control" -> Mentions(code, "tx.origin")
      [] type = "timestamp_dependence" -> Mentions(code, "block.timestamp")
      [] OTHER -> Mentions(code, "delegatecall")

\* the types of the issues a run of the audit tool reported, in order
ReportedTypes ==
    [i \in 1..Len(goOut.result.data[1].issues.v) |-> goOut.result.data[1].issues.v[i].type]

\* the issues are the check list filtered to the checks triggered by the code,
\* with the two cases the claim names
IssuesFollowChecks ==
    /\ ReportedTypes = SelectSeq(CheckTypes, LAMBDA t : Triggered(AuditedCode, t))
    /\ (Mentions(AuditedCode, ".call{value:")
          /\ \A k \in 1..Len(AuditedCode) :
                AuditedCode[k] \notin {"call.value", "tx.origin", "block.timestamp",
                                       "delegatecall"})
       => /\ Len(goOut.result.data[1].issues.v) = 1
          /\ goOut.result.data[1].issues.v[1].type = "reentrancy"
          /\ goOut.result.data[1].issues.v[1].severity = "high"
          /\ goOut.result.data[1].score = 80
    /\ (\A t \in ElementsOf(CheckTypes) : ~Triggered(AuditedCode, t))
       => /\ goOut.result.data[1].issues.v = <<>>
          /\ goOut.result.data[1].score = 100

(***************************************************************************)
(* C24 as stated.  The issues list of the security audit tool is the fixed *)
(* check list (reentrancy, access_control, timestamp_dependence,           *)
(* delegatecall) filtered to the checks whose trigger strings occur in the *)
(* code, at most one issue per check, in check-definition order; code      *)
(* whose only trigger is ".call{value:" gives one issue of type reentrancy *)
(* and severity high with score 80, code with no trigger gives no issue    *)
(* and score 100.                                                          *)
(***************************************************************************)
C24_IssuesAreTriggeredChecks == AuditRan => IssuesFollowChecks

(***************************************************************************)
(* C24 amended.  When the language given is solidity, or none is given,    *)
(* the issues list is the fixed check list filtered to the checks whose    *)
(* trigger strings occur in the code, at most one issue per check, in      *)
(* check-definition order, with the two named cases; for any other         *)
(* language the tool reports no issue and score 100.                       *)
(***************************************************************************)
C24_IssuesAreTriggeredChecksOfSolidity ==
    AuditRan =>
        IF AuditedLanguage = "solidity" THEN IssuesFollowChecks
        ELSE /\ goOut.result.data[1].issues.v = <<>>
             /\ goOut.result.data[1].score = 100

\* a code naming delegatecall before tx.origin and block.timestamp was audited
\* and its issues came in check order
C24_Witness ==
    /\ AuditRan
    /\ AuditedLanguage = "solidity"
    /\ AuditedCode = <<"delegatecall", "tx.origin", "block.timestamp">>
    /\ ReportedTypes = <<"access_control", "timestamp_dependence", "delegatecall">>

(***************************************************************************)
(* C29.  In every result the security audit score is one of 20, 40, 60,    *)
(* 80, 100 and the gas optimization score one of 50, 60, 70, 80, 90, 100:  *)
(* neither score is ever the clamped value 0.  The estimated total savings *)
(* of the gas tool is 1000 times the number of its suggestions.            *)
(***************************************************************************)
C29_ScoresStayInRange ==
    /\ AuditRan =>
          /\ goOut.result.data[1].score \in {20, 40, 60, 80, 100}
          /\ Len(goOut.result.data[1].issues.v) <= 4
    /\ GasRan =>
          /\ goOut.result.data[1].optimization_score \in {50, 60, 70, 80, 90, 100}
          /\ Len(goOut.result.data[1].suggestions.v) <= 5
          /\ goOut.result.data[1].estimated_total_savings[1] =
                1000 * Len(goOut.result.data[1].suggestions.v)

\* the gas tool made all of its five suggestions on one code
C29_Witness ==
    /\ GasRan
    /\ Len(goOut.result.data[1].suggestions.v) = 5
    /\ goOut.result.data[1].optimization_score = 50
    /\ goOut.result.data[1].estimated_total_savings = <<5000, " gas">>

\* the audit tool reported all of its four issues on one code
C29_AuditWitness ==
    /\ AuditRan
    /\ Len(goOut.result.data[1].issues.v) = 4
    /\ goOut.result.data[1].score = 20

\* the analyze command ran on a file it could read
Analyzed == goOut.op = "analyze" /\ goOut.exit = 0

\* the output of the last command holds a line of this text
Printed(text) == \E k \in 1..Len(goOut.output) : goOut.output[k].text = text

\* what the two tools report for the analysed file
FileIssues ==
    SecurityAuditExecute([code |-> GoValue("string", Flatten(goFile)),
                          language |-> GoValue("string", "solidity")]).data[1].issues.v

FileSuggestions ==
    GasOptimizationExecute([code |-> GoValue("string", Flatten(goFile))]).data[1].suggestions.v

(***************************************************************************)
(* C30.  When analyze runs its security audit and the tool reports at      *)
(* least one issue for the file, the output lists every reported issue and *)
(* does not hold the line "No security issues found"; that line is printed *)
(* only when the issues list is empty.  Likewise "Code is well optimized"  *)
(* is printed only when the gas tool's suggestions list is empty.          *)
(***************************************************************************)
C30_AnalyzeListsReportedFindings ==
    /\ (Analyzed /\ goOut.security) =>
          /\ FileIssues # <<>> =>
                \A i \in 1..Len(FileIssues) :
                    \E k \in 1..Len(goOut.output) :
                        /\ goOut.output[k].text = " * %s (%s): %s"
                        /\ goOut.output[k].args[1] = FileIssues[i].type
          /\ Printed("No security issues found!") => FileIssues = <<>>
    /\ (Analyzed /\ goOut.gas /\ Printed("Code is well optimized!")) =>
          FileSuggestions = <<>>

\* the mode instruction texts of one mode
ModeTexts(m) == IF m = "educational" THEN EducationalTexts ELSE ProductionTexts

\* the modes whose instruction the request sent by the call in flight carries
ModesCarried == {m \in {"production", "educational"} : SentPieces \cap ModeTexts(m) # {}}

(***************************************************************************)
(* C25.  The request one generate call sends carries the mode instruction  *)
(* of exactly one mode, the effective mode the facade resolved (the        *)
(* request's mode, else the configured style, else production); when the   *)
(* request names no mode and the configured style is educational, what is  *)
(* sent holds no production-mode instruction.                              *)
(***************************************************************************)
C25_OneModeInstructionSent ==
    (req.op \in {"generate", "generateWithTools"} /\ sent # <<>>
        /\ RequestedMode \in {"production", "educational"}) =>
        /\ ModesCarried = {RequestedMode}
        /\ (req.mode = Undefined /\ config.style = "educational") =>
              SentPieces \cap ProductionTexts = {}

\* the sampling options of the call in flight, as the request named them
AskedTemperature == OptField(req, "temperature")

AskedMaxTokens == OptField(req, "maxTokens")

(***************************************************************************)
(* C26.  When the request names a temperature, the payload that is sent    *)
(* carries that temperature, 0 included, and likewise for maxTokens and    *)
(* max_tokens; the defaults 0.7 and 2000 are sent by the facade's adapters *)
(* only when the request leaves the field out.                             *)
(***************************************************************************)
C26_SamplingOptionsPassThrough ==
    (req.op \in {"generate", "ApiClient.Generate"} /\ sent # <<>>) =>
        /\ AskedTemperature # None => sent[1].temperature = AskedTemperature[1]
        /\ AskedMaxTokens # None => sent[1].max_tokens = AskedMaxTokens[1]
        /\ req.op = "generate" =>
              /\ AskedTemperature = None => sent[1].temperature = 7
              /\ AskedMaxTokens = None => sent[1].max_tokens = 2000

\* the mode a generate call with no mode of its own resolves
DefaultMode == JsOr(config.style, "production")

(***************************************************************************)
(* C27.  The facade's configuration is fixed at construction: whatever a   *)
(* caller does to the object getConfig() returned, its nested output       *)
(* settings included, or to the object it passed to the constructor, the   *)
(* default mode later generate calls resolve stays the one it was.         *)
(***************************************************************************)
C27_ConfigFixedAtConstruction ==
    [][facade = "ready" => DefaultMode' = DefaultMode]_vars

\* a generateWithTools call whose loop has passed every requested name and
\* found none of them registered (the list may be empty)
NoToolRegistered ==
    /\ req.op = "generateWithTools"
    /\ Len(execLog) = Len(req.tools)
    /\ \A k \in 1..Len(execLog) : ~execLog[k].registered

\* what generate sends for the request in flight, and what it returns or
\* throws on a reply
PlainRequest ==
    ProviderRequest(llmProvider, config,
                    [req EXCEPT !.prompt = enhancePromptWithMode(req.prompt, RequestedMode)])

PlainOutcome(r) ==
    LET got == ProviderResult(llmProvider, r) IN
    IF got.ok THEN Returned(GenerateResult(req, RequestedMode, got.value))
    ELSE Rejected(got.error)

(***************************************************************************)
(* C28.  A generateWithTools call with an empty tool list, or with names   *)
(* none of which is registered, does what generate does on the same        *)
(* request: it sends the one request generate would send, with the same    *)
(* prompt, and returns the code, language and explanation generate would   *)
(* return on the same reply, with toolsUsed empty.                         *)
(***************************************************************************)
C28_NoToolsIsPlainGenerate ==
    (NoToolRegistered /\ sent # <<>>) =>
        /\ sent = <<PlainRequest>>
        /\ toolsUsed = <<>>
        /\ ~Mentions(sent[1].user, ContextHeading)
        /\ result.status # "pending" =>
              /\ result = PlainOutcome(reply[1])
              /\ result.toolsUsed = <<>>

\* an educational call naming one unregistered tool has returned an explanation
C28_Witness ==
    /\ NoToolRegistered
    /\ Len(req.tools) >= 1
    /\ LogHas({"skipped"})
    /\ RequestedMode = "educational"
    /\ result.status = "returned"
    /\ result.explanation # None
    /\ result.toolsUsed = <<>>

====
